---- MODULE Spec2Model ----
(***************************************************************************)
(* A state-machine model of sandfs: the virtual node tree (nodes.py), the  *)
(* facade VirtualFileSystem (vfs.py), the MemoryStorageAdapter             *)
(* (adapters.py) and the full-text index (search.py).                      *)
(*                                                                         *)
(* Nodes live in an arena addressed by ids (Python object identity); a     *)
(* directory's children map holds ids and every node's parent field is an  *)
(* id, exactly the two links the Python objects keep.  Paths are sequences *)
(* of names (PurePosixPath.parts without the leading "/"); file contents   *)
(* are sequences of characters.  Every facade method is an operator from   *)
(* the state before the call to the state after it together with the       *)
(* exception it raised, and keeps whatever the method had already mutated  *)
(* when it raised.                                                         *)
(***************************************************************************)
EXTENDS Integers, Sequences, FiniteSets, TLC

VARIABLES vfs, vfs2, adapters, events, last, hist

vars == <<vfs, vfs2, adapters, events, last, hist>>

\* ---------------------------------------------------------------- bounds
MaxNodes == 5
MaxLen == 2
MaxVersion == 3

\* ------------------------------------------------------------ the universe
NameSeq == <<"a", "b", "d", "m">>
Names == {NameSeq[i] : i \in 1..Len(NameSeq)}
Ids == 0..MaxNodes
Root == 0
NoNode == 0 - 1
AdapterIds == {"A", "B"}

\* Exceptions (exceptions.py); "" stands for a normal return.  The part after
\* the colon names the raise statement.
NoErr == ""
NodeNotFound == "NodeNotFound"
NodeExists == "NodeExists"
NotADirectory == "InvalidOperation: is not a directory"
NotAFile == "InvalidOperation: is not a file"
ReadOnly == "InvalidOperation: is read-only"
AppendOnly == "InvalidOperation: is append-only"
NotReadable == "InvalidOperation: is not readable"
VersionMismatch == "InvalidOperation: Version mismatch"
StorageConflict == "InvalidOperation: Storage conflict"
RootPath == "InvalidOperation: root path"
DestinationExists == "InvalidOperation: Destination already exists"
InsideItself == "InvalidOperation: inside itself"
NotEmpty == "InvalidOperation: Directory not empty"
NeedRecursive == "InvalidOperation: Source is a directory"
NoMount == "InvalidOperation: No storage mount"
OutOfIds == "model: arena exhausted"

\* ------------------------------------------------------------------ nodes
DefaultPolicy == [readable |-> TRUE, writable |-> TRUE, append_only |-> FALSE, classification |-> "public", principals |-> {}]

NoChildren == [n \in Names |-> NoNode]

FreeNode == [kind |-> "free", name |-> "", parent |-> NoNode, children |-> NoChildren, content |-> <<>>, version |-> 0, policy |-> DefaultPolicy]

\* Faulty variant: a file is created at version 1.
NewFileVersioned(name, parent) == [FreeNode EXCEPT !.kind = "file", !.name = name, !.parent = parent, !.version = 1]

NewFile(name, parent) == [kind |-> "file", name |-> name, parent |-> parent, children |-> NoChildren, content |-> <<>>, version |-> 0, policy |-> DefaultPolicy]

NewDirectory(name, parent) == [kind |-> "dir", name |-> name, parent |-> parent, children |-> NoChildren, content |-> <<>>, version |-> 0, policy |-> DefaultPolicy]

IsDir(fs, n) == fs.nodes[n].kind = "dir"

IsFile(fs, n) == fs.nodes[n].kind = "file"

ChildIds(fs, n) == {fs.nodes[n].children[c] : c \in Names} \ {NoNode}

\* VirtualNode.path(): the names met walking the parent links up to a node
\* without parent.
RECURSIVE NodePath(_, _)
NodePath(fs, n) == IF fs.nodes[n].parent = NoNode THEN <<>> ELSE Append(NodePath(fs, fs.nodes[n].parent), fs.nodes[n].name)

\* An unused arena slot for a node under construction (NoNode when the model's
\* arena is full).
FreeId(fs) == IF \E i \in Ids : fs.nodes[i].kind = "free" THEN CHOOSE i \in Ids : fs.nodes[i].kind = "free" /\ \A j \in Ids : fs.nodes[j].kind = "free" => i <= j ELSE NoNode

\* VirtualDirectory.add_child on a name known to be absent.
AddChild(fs, dir, id, rec) == [fs EXCEPT !.nodes = [@ EXCEPT ![id] = [rec EXCEPT !.parent = dir], ![dir] = [@ EXCEPT !.children = [@ EXCEPT ![rec.name] = id]]]]

\* Faulty variant: the entry stays.
RemoveChildKept(fs, dir, name) == fs

\* VirtualDirectory.remove_child: the entry goes, the node keeps its parent link.
RemoveChild(fs, dir, name) == [fs EXCEPT !.nodes = [@ EXCEPT ![dir] = [@ EXCEPT !.children = [@ EXCEPT ![name] = NoNode]]]]

\* VirtualDirectory.get_child.
GetChild(fs, dir, name) == fs.nodes[dir].children[name]

\* ------------------------------------------------------------ path helpers
Parent(path) == SubSeq(path, 1, Len(path) - 1)

BaseName(path) == path[Len(path)]

\* Faulty variant: relative_to always raises ValueError.
IsPrefixNever(prefix, path) == FALSE

IsPrefix(prefix, path) == Len(prefix) <= Len(path) /\ SubSeq(path, 1, Len(prefix)) = prefix

\* VirtualFileSystem._path_matches_prefix.
PathMatchesPrefix(path, prefix) == prefix = <<>> \/ IsPrefix(prefix, path)

\* VirtualFileSystem._resolve_node: [err, node].
RECURSIVE ResolveFrom(_, _, _)
ResolveFrom(fs, cur, parts) ==
  IF parts = <<>> THEN [err |-> NoErr, node |-> cur]
  ELSE IF ~IsDir(fs, cur) THEN [err |-> NotADirectory, node |-> NoNode]
  ELSE IF GetChild(fs, cur, Head(parts)) = NoNode THEN [err |-> NodeNotFound, node |-> NoNode]
  ELSE ResolveFrom(fs, GetChild(fs, cur, Head(parts)), Tail(parts))

ResolveNode(fs, path) == ResolveFrom(fs, Root, path)

Exists(fs, path) == ResolveNode(fs, path).err = NoErr

\* VirtualFileSystem._resolve_dir: [fs, err, node]; with create, the missing
\* directories made before a raise stay in the tree.
RECURSIVE ResolveDirFrom(_, _, _, _)
ResolveDirFrom(fs, cur, parts, create) ==
  IF parts = <<>> THEN [fs |-> fs, err |-> NoErr, node |-> cur]
  ELSE IF ~IsDir(fs, cur) THEN [fs |-> fs, err |-> NotADirectory, node |-> NoNode]
  ELSE LET c == GetChild(fs, cur, Head(parts)) IN
    IF c = NoNode
    THEN IF ~create THEN [fs |-> fs, err |-> NodeNotFound, node |-> NoNode]
         ELSE LET id == FreeId(fs) IN
           IF id = NoNode THEN [fs |-> fs, err |-> OutOfIds, node |-> NoNode]
           ELSE ResolveDirFrom(AddChild(fs, cur, id, NewDirectory(Head(parts), cur)), id, Tail(parts), create)
    ELSE IF ~IsDir(fs, c) THEN [fs |-> fs, err |-> NotADirectory, node |-> NoNode]
    ELSE ResolveDirFrom(fs, c, Tail(parts), create)

ResolveDir(fs, path, create) == ResolveDirFrom(fs, Root, path, create)

\* VirtualFileSystem._ensure_file: [fs, err, node].
EnsureFile(fs, path, create) ==
  IF path = <<>> THEN [fs |-> fs, err |-> RootPath, node |-> NoNode]
  ELSE LET d == ResolveDir(fs, Parent(path), create) IN
    IF d.err # NoErr THEN d
    ELSE LET c == GetChild(d.fs, d.node, BaseName(path)) IN
      IF c = NoNode
      THEN IF ~create THEN [fs |-> d.fs, err |-> NodeNotFound, node |-> NoNode]
           ELSE LET id == FreeId(d.fs) IN
             IF id = NoNode THEN [fs |-> d.fs, err |-> OutOfIds, node |-> NoNode]
             ELSE [fs |-> AddChild(d.fs, d.node, id, NewFile(BaseName(path), d.node)), err |-> NoErr, node |-> id]
      ELSE IF ~IsFile(d.fs, c) THEN [fs |-> d.fs, err |-> NotAFile, node |-> NoNode]
      ELSE [fs |-> d.fs, err |-> NoErr, node |-> c]

\* VirtualFileSystem._ensure_read_allowed, _ensure_write_allowed, _check_version:
\* the exception raised, NoErr when none.
EnsureReadAllowed(fs, n) == IF ~fs.nodes[n].policy.readable THEN NotReadable ELSE NoErr

EnsureWriteAllowed(fs, n, append) ==
  IF ~fs.nodes[n].policy.writable THEN ReadOnly
  ELSE IF fs.nodes[n].policy.append_only /\ ~append THEN AppendOnly
  ELSE NoErr

\* expected_version: NoNode stands for None.
\* Faulty variant: the expected version is never looked at.
CheckVersionSkipped(fs, n, expected_version) == NoErr

CheckVersion(fs, n, expected_version) ==
  IF expected_version = NoNode THEN NoErr
  ELSE IF fs.nodes[n].version # expected_version THEN VersionMismatch
  ELSE NoErr

\* ------------------------------------------------- MemoryStorageAdapter
\* An adapter's _entries: a function from keys (relative paths) to StorageEntry.
StorageEntry(content, version) == [content |-> content, version |-> version]

\* Faulty variant: the caller's version is not compared with the stored one.
AdapterWriteUnchecked(a, key, content, version) == [a |-> (key :> StorageEntry(content, version + 1)) @@ a, err |-> NoErr]

\* Faulty variant: the stored version is not advanced.
AdapterWriteSameVersion(a, key, content, version) ==
  IF key \in DOMAIN a /\ a[key].version # version THEN [a |-> a, err |-> "ValueError"]
  ELSE [a |-> (key :> StorageEntry(content, version)) @@ a, err |-> NoErr]

\* MemoryStorageAdapter.write: [a, err]; "ValueError" on a version mismatch.
AdapterWrite(a, key, content, version) ==
  IF key \in DOMAIN a /\ a[key].version # version THEN [a |-> a, err |-> "ValueError"]
  ELSE [a |-> (key :> StorageEntry(content, version + 1)) @@ a, err |-> NoErr]

\* MemoryStorageAdapter.delete.
AdapterDelete(a, key) == [k \in DOMAIN a \ {key} |-> a[k]]

\* ------------------------------------------------------ storage integration
\* VirtualFileSystem._find_storage_mount: the longest mounted prefix of path.
MountsOf(fs, path) == {p \in DOMAIN fs.mounts : PathMatchesPrefix(path, p)}

HasStorageMount(fs, path) == MountsOf(fs, path) # {}

\* Faulty variant: the shortest mounted prefix is taken.
FindStorageMountShortest(fs, path) == CHOOSE p \in MountsOf(fs, path) : \A q \in MountsOf(fs, path) : Len(p) <= Len(q)

FindStorageMount(fs, path) == CHOOSE p \in MountsOf(fs, path) : \A q \in MountsOf(fs, path) : Len(q) <= Len(p)

\* VirtualFileSystem._relative_storage_path.
RelativeStoragePath(path, prefix) == SubSeq(path, Len(prefix) + 1, Len(path))

\* VirtualFileSystem._persist_storage: [fs, ad, err].
PersistStorage(fs, ad, n, previous_version) ==
  LET path == NodePath(fs, n) IN
  IF ~HasStorageMount(fs, path) THEN [fs |-> fs, ad |-> ad, err |-> NoErr]
  ELSE LET prefix == FindStorageMount(fs, path)
           aid == fs.mounts[prefix]
           w == AdapterWrite(ad[aid], RelativeStoragePath(path, prefix), fs.nodes[n].content, previous_version)
       IN IF w.err # NoErr
          THEN [fs |-> [fs EXCEPT !.nodes = [@ EXCEPT ![n] = [@ EXCEPT !.version = previous_version]]], ad |-> ad, err |-> StorageConflict]
          ELSE [fs |-> fs, ad |-> [ad EXCEPT ![aid] = w.a], err |-> NoErr]

\* Faulty variant: the adapter keeps the entry.
DeleteStorageEntrySkipped(fs, ad, n) == ad

\* VirtualFileSystem._delete_storage_entry.
DeleteStorageEntry(fs, ad, n) ==
  LET path == NodePath(fs, n) IN
  IF ~HasStorageMount(fs, path) THEN ad
  ELSE LET prefix == FindStorageMount(fs, path) IN
       [ad EXCEPT ![fs.mounts[prefix]] = AdapterDelete(@, RelativeStoragePath(path, prefix))]

\* ------------------------------------------------------------ search index
\* FullTextIndex._files is fs.index; fs.indexed says whether an index is enabled.
\* VirtualFileSystem._index_file and _remove_index_entry.
IndexFile(fs, n) == IF ~fs.indexed THEN fs ELSE [fs EXCEPT !.index = (NodePath(fs, n) :> fs.nodes[n].content) @@ @]

RemoveIndexEntry(fs, path) == IF ~fs.indexed THEN fs ELSE [fs EXCEPT !.index = [k \in DOMAIN @ \ {path} |-> @[k]]]

\* The files reachable from the root, as VirtualFileSystem.iter_files("/") walks them.
RECURSIVE FilesBelow(_, _)
FilesBelow(fs, n) == IF IsFile(fs, n) THEN {n} ELSE UNION {FilesBelow(fs, c) : c \in ChildIds(fs, n)}

\* VirtualFileSystem._rebuild_index.
RebuildIndex(fs) ==
  IF ~fs.indexed THEN fs
  ELSE LET files == FilesBelow(fs, Root) IN
       [fs EXCEPT !.index = [p \in {NodePath(fs, f) : f \in files} |-> fs.nodes[CHOOSE f \in files : NodePath(fs, f) = p].content]]

\* -------------------------------------------------------------------- hooks
\* fs.write_hooks and fs.path_hooks are the registered prefixes in registration
\* order; an event records the hook (its position) it was delivered to.
None == <<"None">>

WriteEvent(to, path, content, version, append) == [hook |-> "write", to |-> to, path |-> path, content |-> content, version |-> version, append |-> append, event |-> ""]

PathEvent(to, path, event, content) == [hook |-> "path", to |-> to, path |-> path, content |-> content, version |-> 0, append |-> FALSE, event |-> event]

RECURSIVE Deliver(_, _, _, _)
Deliver(hooks, i, path, ev) ==
  IF i > Len(hooks) THEN <<>>
  ELSE (IF PathMatchesPrefix(path, hooks[i]) THEN <<[ev EXCEPT !.to = i]>> ELSE <<>>) \o Deliver(hooks, i + 1, path, ev)

\* VirtualFileSystem._emit_path_event: the events delivered.
EmitPathEvent(fs, path, event_type, content) == Deliver(fs.path_hooks, 1, path, PathEvent(0, path, event_type, content))

\* VirtualFileSystem._emit_write_event: the events delivered.
EmitWriteEvent(fs, n, append, event_type) ==
  Deliver(fs.write_hooks, 1, NodePath(fs, n), WriteEvent(0, NodePath(fs, n), fs.nodes[n].content, fs.nodes[n].version, append))
  \o EmitPathEvent(fs, NodePath(fs, n), event_type, fs.nodes[n].content)

\* --------------------------------------------------------------- the facade
\* The outcome of a facade call: the facade's state, the adapters, the events
\* delivered and the exception raised.
Outcome(fs, ad, ev, err) == [fs |-> fs, ad |-> ad, ev |-> ev, err |-> err]

\* VirtualFile.write.
FileWrite(rec, data, append) == [rec EXCEPT !.content = IF append THEN @ \o data ELSE data]

\* VirtualFileSystem.write_file (append_file is write_file with append=True).
\* write_file from line 508 on; e is what _ensure_file(path, create=True) gave.
WriteEnsured(e, ad, data, append, expected_version) ==
  IF e.err # NoErr THEN Outcome(e.fs, ad, <<>>, e.err)
  ELSE IF EnsureWriteAllowed(e.fs, e.node, append) # NoErr THEN Outcome(e.fs, ad, <<>>, EnsureWriteAllowed(e.fs, e.node, append))
  ELSE IF CheckVersion(e.fs, e.node, expected_version) # NoErr THEN Outcome(e.fs, ad, <<>>, VersionMismatch)
  ELSE LET n == e.node
           previous_version == e.fs.nodes[n].version
           written == [e.fs EXCEPT !.nodes = [@ EXCEPT ![n] = [FileWrite(@, data, append) EXCEPT !.version = @ + 1]]]
           p == PersistStorage(written, ad, n, previous_version)
       IN IF p.err # NoErr THEN Outcome(p.fs, p.ad, <<>>, p.err)
          ELSE LET indexed == IndexFile(p.fs, n) IN
               Outcome(indexed, p.ad, EmitWriteEvent(indexed, n, append, IF previous_version = 0 THEN "create" ELSE "update"), NoErr)

WriteFile(fs, ad, path, data, append, expected_version) == WriteEnsured(EnsureFile(fs, path, TRUE), ad, data, append, expected_version)

\* VirtualFileSystem.read_file: [err, content].
\* read_file from line 536 on; e is what _ensure_file(path, create=False) gave.
ReadEnsured(fs, e) ==
  IF e.err # NoErr THEN [err |-> e.err, content |-> None]
  ELSE IF EnsureReadAllowed(fs, e.node) # NoErr THEN [err |-> NotReadable, content |-> None]
  ELSE [err |-> NoErr, content |-> fs.nodes[e.node].content]

ReadFile(fs, path) == ReadEnsured(fs, EnsureFile(fs, path, FALSE))

\* VirtualFileSystem.is_file.
IsFileAt(fs, path) == ResolveNode(fs, path).err = NoErr /\ IsFile(fs, ResolveNode(fs, path).node)

\* VirtualFileSystem.is_dir.
IsDirAt(fs, path) == ResolveNode(fs, path).err = NoErr /\ IsDir(fs, ResolveNode(fs, path).node)

\* VirtualFileSystem.get_version (of an existing file).
GetVersion(fs, path) == fs.nodes[ResolveNode(fs, path).node].version

\* exceptions.py: InvalidOperation, NodeNotFound and NodeExists derive from
\* SandboxError and not from ValueError, so `except ValueError` lets them pass.
InvalidOperationIsValueError == FALSE

\* VirtualFileSystem.touch.
Touch(fs, ad, path) ==
  LET e == EnsureFile(fs, path, TRUE) IN
  IF e.err # NoErr THEN Outcome(e.fs, ad, <<>>, e.err)
  ELSE Outcome(e.fs, ad, <<>>, EnsureWriteAllowed(e.fs, e.node, TRUE))

\* VirtualFileSystem.mkdir: [fs, err, node].
Mkdir(fs, path, parents, exist_ok) ==
  IF path = <<>> THEN [fs |-> fs, err |-> NoErr, node |-> Root]
  ELSE LET d == ResolveDir(fs, Parent(path), parents) IN
    IF d.err # NoErr THEN d
    ELSE IF EnsureWriteAllowed(d.fs, d.node, FALSE) # NoErr THEN [fs |-> d.fs, err |-> EnsureWriteAllowed(d.fs, d.node, FALSE), node |-> NoNode]
    ELSE LET existing == GetChild(d.fs, d.node, BaseName(path)) IN
      IF existing = NoNode
      THEN LET id == FreeId(d.fs) IN
           IF id = NoNode THEN [fs |-> d.fs, err |-> OutOfIds, node |-> NoNode]
           ELSE [fs |-> AddChild(d.fs, d.node, id, NewDirectory(BaseName(path), d.node)), err |-> NoErr, node |-> id]
      ELSE IF ~IsDir(d.fs, existing) THEN [fs |-> d.fs, err |-> NotADirectory, node |-> NoNode]
      ELSE IF ~exist_ok THEN [fs |-> d.fs, err |-> NodeExists, node |-> NoNode]
      ELSE [fs |-> d.fs, err |-> NoErr, node |-> existing]

\* VirtualFileSystem.remove.  RemoveChildren is its loop over the children of a
\* directory (taken in the order of NameSeq), from the i-th name on.
RECURSIVE Remove(_, _, _, _, _)
RECURSIVE RemoveChildren(_, _, _)
RemoveChildren(o, node, i) ==
  IF o.err # NoErr \/ i > Len(NameSeq) THEN o
  ELSE LET child_node == GetChild(o.fs, node, NameSeq[i]) IN
       IF child_node = NoNode THEN RemoveChildren(o, node, i + 1)
       ELSE RemoveChildren(Remove(o.fs, o.ad, o.ev, NodePath(o.fs, child_node), TRUE), node, i + 1)

Remove(fs, ad, ev, path, recursive) ==
  IF path = <<>> THEN Outcome(fs, ad, ev, RootPath)
  ELSE LET r == ResolveNode(fs, path) IN
    IF r.err # NoErr THEN Outcome(fs, ad, ev, r.err)
    ELSE LET node == r.node
             parent == fs.nodes[node].parent
         IN IF parent = NoNode THEN Outcome(fs, ad, ev, RootPath)
            ELSE IF EnsureWriteAllowed(fs, node, FALSE) # NoErr THEN Outcome(fs, ad, ev, EnsureWriteAllowed(fs, node, FALSE))
            ELSE IF EnsureWriteAllowed(fs, parent, FALSE) # NoErr THEN Outcome(fs, ad, ev, EnsureWriteAllowed(fs, parent, FALSE))
            ELSE IF IsDir(fs, node) /\ ChildIds(fs, node) # {} /\ ~recursive THEN Outcome(fs, ad, ev, NotEmpty)
            ELSE LET c == IF IsDir(fs, node) /\ recursive THEN RemoveChildren(Outcome(fs, ad, ev, NoErr), node, 1) ELSE Outcome(fs, ad, ev, NoErr) IN
                 IF c.err # NoErr THEN c
                 ELSE IF GetChild(c.fs, parent, c.fs.nodes[node].name) = NoNode THEN Outcome(c.fs, c.ad, c.ev, NodeNotFound)
                 ELSE LET detached == RemoveChild(c.fs, parent, c.fs.nodes[node].name) IN
                      IF IsFile(detached, node)
                      THEN Outcome(RemoveIndexEntry(detached, NodePath(detached, node)), DeleteStorageEntry(detached, c.ad, node), c.ev \o EmitPathEvent(detached, NodePath(detached, node), "delete", None), NoErr)
                      ELSE Outcome(detached, c.ad, c.ev, NoErr)

\* The destination of move and copy when the target path does not resolve
\* (the except branch): [err, parent, name].
NewDestination(fs, target) ==
  LET d == ResolveDir(fs, Parent(target), FALSE) IN
  IF d.err # NoErr THEN [err |-> d.err, parent |-> NoNode, name |-> ""]
  ELSE IF EnsureWriteAllowed(fs, d.node, FALSE) # NoErr THEN [err |-> EnsureWriteAllowed(fs, d.node, FALSE), parent |-> NoNode, name |-> ""]
  ELSE [err |-> NoErr, parent |-> d.node, name |-> BaseName(target)]

\* The destination when the target is an existing directory: inside it, under
\* the source's own name.
IntoDirectory(fs, dest_node, node) ==
  IF EnsureWriteAllowed(fs, dest_node, FALSE) # NoErr THEN [err |-> EnsureWriteAllowed(fs, dest_node, FALSE), parent |-> NoNode, name |-> ""]
  ELSE [err |-> NoErr, parent |-> dest_node, name |-> fs.nodes[node].name]

\* Faulty variant: an existing file is taken for a free destination.
MoveDestinationOverwrites(fs, node, target) ==
  LET d == ResolveNode(fs, target) IN
  IF d.err = NoErr /\ IsDir(fs, d.node) THEN IntoDirectory(fs, d.node, node)
  ELSE NewDestination(fs, target)

\* move, lines 588-602: where the node goes.
MoveDestination(fs, node, target) ==
  LET d == ResolveNode(fs, target) IN
  IF d.err # NoErr THEN NewDestination(fs, target)
  ELSE IF IsDir(fs, d.node) THEN IntoDirectory(fs, d.node, node)
  ELSE [err |-> DestinationExists, parent |-> NoNode, name |-> ""]

\* move, lines 621-628: detach, rename, attach, re-index.
Reparent(fs, node, parent, dest) ==
  LET original_path == NodePath(fs, node)
      renamed == [RemoveChild(fs, parent, fs.nodes[node].name) EXCEPT !.nodes = [@ EXCEPT ![node] = [@ EXCEPT !.name = dest.name]]]
  IN IF GetChild(renamed, dest.parent, dest.name) # NoNode THEN [fs |-> renamed, err |-> NodeExists]
     ELSE LET moved == AddChild(renamed, dest.parent, node, renamed.nodes[node]) IN
          [fs |-> IF IsFile(moved, node) THEN IndexFile(RemoveIndexEntry(moved, original_path), node) ELSE RebuildIndex(moved), err |-> NoErr]

\* VirtualFileSystem.move.
Move(fs, ad, source, target) ==
  IF source = <<>> THEN Outcome(fs, ad, <<>>, RootPath)
  ELSE LET r == ResolveNode(fs, source) IN
    IF r.err # NoErr THEN Outcome(fs, ad, <<>>, r.err)
    ELSE LET node == r.node
             parent == fs.nodes[node].parent
         IN IF parent = NoNode THEN Outcome(fs, ad, <<>>, RootPath)
            ELSE IF EnsureWriteAllowed(fs, node, FALSE) # NoErr THEN Outcome(fs, ad, <<>>, EnsureWriteAllowed(fs, node, FALSE))
            ELSE IF EnsureWriteAllowed(fs, parent, FALSE) # NoErr THEN Outcome(fs, ad, <<>>, EnsureWriteAllowed(fs, parent, FALSE))
            ELSE LET dest == MoveDestination(fs, node, target) IN
                 IF dest.err # NoErr THEN Outcome(fs, ad, <<>>, dest.err)
                 ELSE IF IsDir(fs, node) /\ IsPrefix(NodePath(fs, node), NodePath(fs, dest.parent)) /\ ~InvalidOperationIsValueError THEN Outcome(fs, ad, <<>>, InsideItself)
                 ELSE IF IsDir(fs, node) /\ NodePath(fs, dest.parent) = NodePath(fs, node) THEN Outcome(fs, ad, <<>>, InsideItself)
                 ELSE IF dest.parent = parent /\ dest.name = fs.nodes[node].name THEN Outcome(fs, ad, <<>>, NoErr)
                 ELSE IF dest.parent = node THEN Outcome(fs, ad, <<>>, InsideItself)
                 ELSE LET m == Reparent(fs, node, parent, dest) IN Outcome(m.fs, ad, <<>>, m.err)

\* VirtualFileSystem._clone_policy.
ClonePolicy(policy) == [readable |-> policy.readable, writable |-> policy.writable, append_only |-> policy.append_only, classification |-> policy.classification, principals |-> policy.principals]

\* VirtualFileSystem._clone_node: [fs, err, node]; the clone has no parent yet.
\* CloneChildren is its loop over the children, from the i-th name on.
RECURSIVE CloneNode(_, _)
RECURSIVE CloneChildren(_, _, _, _)
CloneChildren(c, node, clone, i) ==
  IF c.err # NoErr \/ i > Len(NameSeq) THEN [fs |-> c.fs, err |-> c.err, node |-> clone]
  ELSE LET child == GetChild(c.fs, node, NameSeq[i]) IN
       IF child = NoNode THEN CloneChildren(c, node, clone, i + 1)
       ELSE LET cc == CloneNode(c.fs, child) IN
            IF cc.err # NoErr THEN [fs |-> cc.fs, err |-> cc.err, node |-> clone]
            ELSE CloneChildren([fs |-> AddChild(cc.fs, clone, cc.node, cc.fs.nodes[cc.node]), err |-> NoErr], node, clone, i + 1)

CloneNode(fs, node) ==
  LET id == FreeId(fs) IN
  IF id = NoNode THEN [fs |-> fs, err |-> OutOfIds, node |-> NoNode]
  ELSE IF IsFile(fs, node)
  THEN [fs |-> [fs EXCEPT !.nodes = [@ EXCEPT ![id] = [FileWrite(NewFile(fs.nodes[node].name, NoNode), fs.nodes[node].content, FALSE) EXCEPT !.policy = ClonePolicy(fs.nodes[node].policy)]]], err |-> NoErr, node |-> id]
  ELSE CloneChildren([fs |-> [fs EXCEPT !.nodes = [@ EXCEPT ![id] = [NewDirectory(fs.nodes[node].name, NoNode) EXCEPT !.policy = ClonePolicy(fs.nodes[node].policy)]]], err |-> NoErr], node, id, 1)

\* copy, lines 647-668: where the clone goes; [fs, err, parent, name].  An
\* existing destination file is detached from its parent here.
CopyDestination(fs, node, target) ==
  LET d == ResolveNode(fs, target) IN
  IF d.err # NoErr THEN [fs |-> fs] @@ NewDestination(fs, target)
  ELSE IF IsDir(fs, d.node) THEN [fs |-> fs] @@ IntoDirectory(fs, d.node, node)
  ELSE LET parent_node == fs.nodes[d.node].parent IN
       IF EnsureWriteAllowed(fs, parent_node, FALSE) # NoErr THEN [fs |-> fs, err |-> EnsureWriteAllowed(fs, parent_node, FALSE), parent |-> NoNode, name |-> ""]
       ELSE IF EnsureWriteAllowed(fs, d.node, FALSE) # NoErr THEN [fs |-> fs, err |-> EnsureWriteAllowed(fs, d.node, FALSE), parent |-> NoNode, name |-> ""]
       ELSE [fs |-> RemoveChild(fs, parent_node, fs.nodes[d.node].name), err |-> NoErr, parent |-> parent_node, name |-> fs.nodes[d.node].name]

\* copy, lines 679-685: clone, rename, attach, index.
AttachClone(fs, node, dest) ==
  LET c == CloneNode(fs, node) IN
  IF c.err # NoErr THEN [fs |-> c.fs, err |-> c.err]
  ELSE IF GetChild(c.fs, dest.parent, dest.name) # NoNode THEN [fs |-> c.fs, err |-> NodeExists]
  ELSE LET attached == AddChild(c.fs, dest.parent, c.node, [c.fs.nodes[c.node] EXCEPT !.name = dest.name]) IN
       [fs |-> IF IsFile(attached, c.node) THEN IndexFile(attached, c.node) ELSE RebuildIndex(attached), err |-> NoErr]

\* VirtualFileSystem.copy.
Copy(fs, ad, source, target, recursive) ==
  LET r == ResolveNode(fs, source) IN
  IF r.err # NoErr THEN Outcome(fs, ad, <<>>, r.err)
  ELSE IF IsDir(fs, r.node) /\ ~recursive THEN Outcome(fs, ad, <<>>, NeedRecursive)
  ELSE IF EnsureReadAllowed(fs, r.node) # NoErr THEN Outcome(fs, ad, <<>>, NotReadable)
  ELSE LET dest == CopyDestination(fs, r.node, target) IN
       IF dest.err # NoErr THEN Outcome(dest.fs, ad, <<>>, dest.err)
       ELSE IF IsDir(dest.fs, r.node) /\ IsPrefix(NodePath(dest.fs, r.node), Append(NodePath(dest.fs, dest.parent), dest.name)) /\ ~InvalidOperationIsValueError THEN Outcome(dest.fs, ad, <<>>, InsideItself)
       ELSE LET c == AttachClone(dest.fs, r.node, dest) IN Outcome(c.fs, ad, <<>>, c.err)

\* VirtualFileSystem.set_policy.
SetPolicy(fs, ad, path, policy) ==
  LET r == ResolveNode(fs, path) IN
  IF r.err # NoErr THEN Outcome(fs, ad, <<>>, r.err)
  ELSE Outcome([fs EXCEPT !.nodes = [@ EXCEPT ![r.node] = [@ EXCEPT !.policy = policy]]], ad, <<>>, NoErr)

\* ------------------------------------------------------------ reclamation
\* A node no reference reaches is gone (Python frees it): the nodes that stay
\* are those under the root and those the cwd reference keeps alive.
RECURSIVE Below(_, _)
Below(fs, n) == {n} \cup UNION {Below(fs, c) : c \in ChildIds(fs, n)}

RECURSIVE Ancestors(_, _)
Ancestors(fs, n) == IF fs.nodes[n].parent = NoNode THEN {n} ELSE {n} \cup Ancestors(fs, fs.nodes[n].parent)

Live(fs) == Below(fs, Root) \cup UNION {Below(fs, a) : a \in Ancestors(fs, fs.cwd)}

Collect(fs) == [fs EXCEPT !.nodes = [i \in Ids |-> IF i \in Live(fs) THEN @[i] ELSE FreeNode]]

\* ------------------------------------------------------ mounting and sync
EmptyMap == [k \in {} |-> NoNode]

\* dict.items() of an adapter listing, as a sequence of keys.
RECURSIVE ListKeys(_)
ListKeys(keys) == IF keys = {} THEN <<>> ELSE LET k == CHOOSE k \in keys : TRUE IN <<k>> \o ListKeys(keys \ {k})

\* _load_storage_mount, lines 248-252: one file per listed entry; [fs, err].
RECURSIVE LoadEntries(_, _, _, _)
LoadEntries(l, prefix, a, keys) ==
  IF l.err # NoErr \/ keys = <<>> THEN l
  ELSE LET e == EnsureFile(l.fs, prefix \o Head(keys), TRUE) IN
       IF e.err # NoErr THEN [fs |-> e.fs, err |-> e.err]
       ELSE LoadEntries([fs |-> [e.fs EXCEPT !.nodes = [@ EXCEPT ![e.node] = [FileWrite(@, a[Head(keys)].content, FALSE) EXCEPT !.version = a[Head(keys)].version]]], err |-> NoErr], prefix, a, Tail(keys))

\* Faulty variant: the children of the mount are kept.
KeepChildren(fs, dir) == fs

\* node.children.clear() in _load_storage_mount; the detached subtrees are reclaimed.
ClearChildren(fs, dir) == Collect([fs EXCEPT !.nodes = [@ EXCEPT ![dir] = [@ EXCEPT !.children = NoChildren]]])

\* VirtualFileSystem._load_storage_mount: [fs, err].
LoadStorageMount(fs, ad, prefix) ==
  LET d == ResolveDir(fs, prefix, FALSE) IN
  IF d.err # NoErr THEN [fs |-> fs, err |-> d.err]
  ELSE LoadEntries([fs |-> ClearChildren(fs, d.node), err |-> NoErr], prefix, ad[fs.mounts[prefix]], ListKeys(DOMAIN ad[fs.mounts[prefix]]))

\* VirtualFileSystem.mount_storage (policy: {} stands for None, {p} for p).
MountStorage(fs, ad, path, adapter, policy) ==
  LET m == Mkdir(fs, path, TRUE, TRUE) IN
  IF m.err # NoErr THEN Outcome(m.fs, ad, <<>>, m.err)
  ELSE LET mounted == [m.fs EXCEPT !.nodes = [@ EXCEPT ![m.node] = [@ EXCEPT !.policy = IF policy = {} THEN @ ELSE CHOOSE q \in policy : TRUE]], !.mounts = (path :> adapter) @@ @]
           l == LoadStorageMount(mounted, ad, path)
       IN IF l.err # NoErr THEN Outcome(l.fs, ad, <<>>, l.err) ELSE Outcome(RebuildIndex(l.fs), ad, <<>>, NoErr)

\* VirtualFileSystem.sync_storage.
SyncStorage(fs, ad, path) ==
  IF path \notin DOMAIN fs.mounts THEN Outcome(fs, ad, <<>>, NoMount)
  ELSE LET l == LoadStorageMount(fs, ad, path) IN
       IF l.err # NoErr THEN Outcome(l.fs, ad, <<>>, l.err) ELSE Outcome(RebuildIndex(l.fs), ad, <<>>, NoErr)

\* VirtualFileSystem.__init__, then enable_full_text_index, register_write_hook
\* and register_path_hook on "/".
EmptyVFS == [nodes |-> [i \in Ids |-> IF i = Root THEN NewDirectory("", NoNode) ELSE FreeNode], cwd |-> Root, index |-> EmptyMap, indexed |-> FALSE, mounts |-> EmptyMap, write_hooks |-> <<>>, path_hooks |-> <<>>]

EnableFullTextIndex(fs) == RebuildIndex([fs EXCEPT !.indexed = TRUE])

RegisterWriteHook(fs, prefix) == [fs EXCEPT !.write_hooks = Append(@, prefix)]

RegisterPathHook(fs, prefix) == [fs EXCEPT !.path_hooks = Append(@, prefix)]

\* ------------------------------------------------------------- visibility
\* An optional frozenset of a VisibilityView: Unset stands for None.
Unset == [given |-> FALSE, set |-> {}]

Given(s) == [given |-> TRUE, set |-> s]

\* VisibilityView(classifications, principals, path_prefixes); the nodes of
\* the model carry no metadata, so metadata_filters stays None.
VisibilityView(classifications, principals, path_prefixes) == [classifications |-> classifications, principals |-> principals, path_prefixes |-> path_prefixes]

\* Faulty variant: the principals of the policy are not looked at.
AllowsByClassification(view, policy) == ~view.classifications.given \/ policy.classification \in view.classifications.set

\* VisibilityView.allows.
Allows(view, policy) ==
  IF policy.principals # {}
  THEN IF ~view.principals.given THEN FALSE
       ELSE IF policy.principals \cap view.principals.set = {} THEN FALSE
       ELSE TRUE
  ELSE IF ~view.classifications.given THEN TRUE
  ELSE policy.classification \in view.classifications.set

\* VisibilityView.allows_node.
AllowsNode(view, fs, n) ==
  IF ~Allows(view, fs.nodes[n].policy) THEN FALSE
  ELSE IF view.path_prefixes.given /\ ~\E prefix \in view.path_prefixes.set : IsPrefix(prefix, NodePath(fs, n)) \/ IsPrefix(NodePath(fs, n), prefix) THEN FALSE
  ELSE TRUE

\* ---------------------------------------------------- the shell: listings
\* A shell is [view, allowed_commands, host_fallback].  Arguments that name
\* paths are absolute paths; a line of output is the node it shows.
Hidden == "InvalidOperation: Path is hidden for this view"

\* VirtualFileSystem.pwd.
Pwd(fs) == NodePath(fs, fs.cwd)

\* VirtualFileSystem.cd: [fs, err].
Cd(fs, path) ==
  LET r == ResolveNode(fs, path) IN
  IF r.err # NoErr THEN [fs |-> fs, err |-> r.err]
  ELSE IF ~IsDir(fs, r.node) THEN [fs |-> fs, err |-> NotADirectory]
  ELSE IF EnsureReadAllowed(fs, r.node) # NoErr THEN [fs |-> fs, err |-> NotReadable]
  ELSE [fs |-> [fs EXCEPT !.cwd = r.node], err |-> NoErr]

\* SandboxShell._ensure_visible_path: the exception raised, NoErr when none.
EnsureVisiblePath(sh, fs, path) ==
  LET r == ResolveNode(fs, path) IN
  IF sh.view.path_prefixes.given /\ ~\E prefix \in sh.view.path_prefixes.set : IsPrefix(prefix, path) \/ IsPrefix(path, prefix) THEN Hidden
  ELSE IF r.err = NodeNotFound THEN NoErr
  ELSE IF r.err # NoErr THEN r.err
  ELSE IF ~Allows(sh.view, fs.nodes[r.node].policy) THEN Hidden
  ELSE IF ~AllowsNode(sh.view, fs, r.node) THEN Hidden
  ELSE NoErr

\* The children of a directory that a view lets through, in the order ls and
\* tree sort them: directories first, each group by name.
ShownNames(fs, view, dir, kind) == SelectSeq(NameSeq, LAMBDA nm : GetChild(fs, dir, nm) # NoNode /\ fs.nodes[GetChild(fs, dir, nm)].kind = kind /\ AllowsNode(view, fs, GetChild(fs, dir, nm)))

SortedEntries(fs, view, dir) == LET names == ShownNames(fs, view, dir, "dir") \o ShownNames(fs, view, dir, "file") IN [i \in 1..Len(names) |-> GetChild(fs, dir, names[i])]

\* VirtualFileSystem.ls: [err, entries].
Ls(fs, path, view) ==
  LET d == ResolveDir(fs, path, FALSE) IN
  IF d.err # NoErr THEN [err |-> d.err, entries |-> <<>>]
  ELSE IF EnsureReadAllowed(fs, d.node) # NoErr THEN [err |-> NotReadable, entries |-> <<>>]
  ELSE [err |-> NoErr, entries |-> SortedEntries(fs, view, d.node)]

\* VirtualFileSystem.tree: [err, lines]; the first line is the header, the
\* directory the tree was asked for.  RenderEntries is render's loop.
RECURSIVE RenderEntries(_, _, _, _)
RenderEntries(fs, view, entries, idx) ==
  IF idx > Len(entries) THEN <<>>
  ELSE <<entries[idx]>> \o (IF IsDir(fs, entries[idx]) THEN RenderEntries(fs, view, SortedEntries(fs, view, entries[idx]), 1) ELSE <<>>) \o RenderEntries(fs, view, entries, idx + 1)

RenderTree(fs, path, view) ==
  LET d == ResolveDir(fs, path, FALSE) IN
  IF d.err # NoErr THEN [err |-> d.err, lines |-> <<>>]
  ELSE IF EnsureReadAllowed(fs, d.node) # NoErr THEN [err |-> NotReadable, lines |-> <<>>]
  ELSE [err |-> NoErr, lines |-> <<d.node>> \o RenderEntries(fs, view, SortedEntries(fs, view, d.node), 1)]

\* What a command handler hands back: a CommandResult, or the exception it
\* let through (raised), with the tree, adapters and events as it left them.
Returned(o, stdout, stderr, exit_code) == [fs |-> o.fs, ad |-> o.ad, ev |-> o.ev, stdout |-> stdout, stderr |-> stderr, exit_code |-> exit_code, raised |-> NoErr]

Raised(o, err) == [fs |-> o.fs, ad |-> o.ad, ev |-> o.ev, stdout |-> <<>>, stderr |-> "", exit_code |-> 0, raised |-> err]

\* The ls command (path arguments only); LsBlocks is its loop over the
\* targets, LsFile what it does with a target vfs.ls refused with
\* InvalidOperation: a file is listed by itself.
LsFile(sh, fs, target, err) ==
  LET node == ResolveNode(fs, target) IN
  IF node.err # NoErr THEN [err |-> node.err, entries |-> <<>>]
  ELSE IF IsDir(fs, node.node) THEN [err |-> err, entries |-> <<>>]
  ELSE IF ~fs.nodes[node.node].policy.readable THEN [err |-> NotReadable, entries |-> <<>>]
  ELSE IF ~AllowsNode(sh.view, fs, node.node) THEN [err |-> Hidden, entries |-> <<>>]
  ELSE [err |-> NoErr, entries |-> <<node.node>>]

RECURSIVE LsBlocks(_, _, _, _, _)
LsBlocks(sh, o, targets, idx, blocks) ==
  IF idx > Len(targets) THEN Returned(o, blocks, "", 0)
  ELSE IF EnsureVisiblePath(sh, o.fs, targets[idx]) # NoErr THEN Raised(o, EnsureVisiblePath(sh, o.fs, targets[idx]))
  ELSE LET listed == Ls(o.fs, targets[idx], sh.view)
           l == IF listed.err \in {NoErr, NodeNotFound} THEN listed ELSE LsFile(sh, o.fs, targets[idx], listed.err)
       IN IF l.err # NoErr THEN Raised(o, l.err)
          ELSE LsBlocks(sh, o, targets, idx + 1, blocks \o l.entries)

CmdLs(sh, o, args) == LsBlocks(sh, o, IF args = <<>> THEN <<Pwd(o.fs)>> ELSE args, 1, <<>>)

\* The tree command.
CmdTree(sh, o, args) ==
  IF args # <<>> /\ EnsureVisiblePath(sh, o.fs, args[1]) # NoErr THEN Raised(o, EnsureVisiblePath(sh, o.fs, args[1]))
  ELSE LET t == RenderTree(o.fs, IF args = <<>> THEN Pwd(o.fs) ELSE args[1], sh.view) IN
       IF t.err # NoErr THEN Raised(o, t.err) ELSE Returned(o, t.lines, "", 0)

\* The find command (path arguments only): walk_visible, and the loop over
\* the start paths.
RECURSIVE WalkVisible(_, _, _)
RECURSIVE WalkChildren(_, _, _, _)
WalkChildren(sh, fs, node, i) ==
  IF i > Len(NameSeq) THEN <<>>
  ELSE (IF GetChild(fs, node, NameSeq[i]) = NoNode THEN <<>> ELSE WalkVisible(sh, fs, GetChild(fs, node, NameSeq[i]))) \o WalkChildren(sh, fs, node, i + 1)

WalkVisible(sh, fs, node) ==
  IF ~AllowsNode(sh.view, fs, node) THEN <<>>
  ELSE <<node>> \o (IF IsDir(fs, node) THEN WalkChildren(sh, fs, node, 1) ELSE <<>>)

NoSuchFile == "find: No such file or directory"

RECURSIVE FindPaths(_, _, _, _, _)
FindPaths(sh, o, paths, idx, results) ==
  IF idx > Len(paths) THEN Returned(o, results, "", 0)
  ELSE IF EnsureVisiblePath(sh, o.fs, paths[idx]) # NoErr THEN Returned(o, <<>>, NoSuchFile, 1)
  ELSE LET start == ResolveNode(o.fs, paths[idx]) IN
       IF start.err # NoErr THEN Returned(o, <<>>, NoSuchFile, 1)
       ELSE FindPaths(sh, o, paths, idx + 1, results \o WalkVisible(sh, o.fs, start.node))

CmdFind(sh, o, args) == FindPaths(sh, o, IF args = <<>> THEN <<Pwd(o.fs)>> ELSE args, 1, <<>>)

\* The cd command.
CmdCd(sh, o, args) ==
  IF Len(args) # 1 THEN Returned(o, <<>>, "cd expects exactly one path", 2)
  ELSE IF EnsureVisiblePath(sh, o.fs, args[1]) # NoErr THEN Raised(o, EnsureVisiblePath(sh, o.fs, args[1]))
  ELSE LET c == Cd(o.fs, args[1]) IN
       IF c.err # NoErr THEN Raised(o, c.err) ELSE Returned([o EXCEPT !.fs = c.fs], <<c.fs.cwd>>, "", 0)

\* ------------------------------------------------- the shell: host commands
\* A host tree maps the paths below the temporary directory to what is there.
HostDir == [is_dir |-> TRUE, text |-> <<>>]

HostFile(text) == [is_dir |-> FALSE, text |-> text]

\* VirtualFileSystem.export_to_path with source "/" (_export_directory).
ExportToPath(fs) == [p \in {NodePath(fs, n) : n \in Below(fs, Root) \ {Root}} |-> IF IsDir(fs, ResolveNode(fs, p).node) THEN HostDir ELSE HostFile(fs.nodes[ResolveNode(fs, p).node].content)]

\* What the host process does to the temporary directory: one edit, and a
\* program of edits.  An edit the host file system refuses changes nothing.
HostHolds(host, path) == Parent(path) = <<>> \/ (Parent(path) \in DOMAIN host /\ host[Parent(path)].is_dir)

HostEdit(host, edit) ==
  IF edit.kind = "write" /\ HostHolds(host, edit.path) /\ ~(edit.path \in DOMAIN host /\ host[edit.path].is_dir)
  THEN [p \in DOMAIN host \cup {edit.path} |-> IF p = edit.path THEN HostFile(edit.text) ELSE host[p]]
  ELSE IF edit.kind = "mkdir" /\ HostHolds(host, edit.path) /\ edit.path \notin DOMAIN host
  THEN [p \in DOMAIN host \cup {edit.path} |-> IF p = edit.path THEN HostDir ELSE host[p]]
  ELSE IF edit.kind = "rm"
  THEN [p \in {q \in DOMAIN host : ~IsPrefix(edit.path, q)} |-> host[p]]
  ELSE host

RECURSIVE HostProgram(_, _)
HostProgram(host, edits) == IF edits = <<>> THEN host ELSE HostProgram(HostEdit(host, Head(edits)), Tail(edits))

\* sorted(fs_root.rglob("*")): a directory before what it holds, names in order.
RECURSIVE SortedBelow(_, _, _)
SortedBelow(host, prefix, i) ==
  IF i > Len(NameSeq) THEN <<>>
  ELSE (IF Append(prefix, NameSeq[i]) \in DOMAIN host THEN <<Append(prefix, NameSeq[i])>> \o SortedBelow(host, Append(prefix, NameSeq[i]), 1) ELSE <<>>) \o SortedBelow(host, prefix, i + 1)

\* VirtualFileSystem.walk("/"): the nodes, a directory before its children.
RECURSIVE Walk(_, _)
RECURSIVE WalkNames(_, _, _)
WalkNames(fs, node, i) ==
  IF i > Len(NameSeq) THEN <<>>
  ELSE (IF GetChild(fs, node, NameSeq[i]) = NoNode THEN <<>> ELSE Walk(fs, GetChild(fs, node, NameSeq[i]))) \o WalkNames(fs, node, i + 1)

Walk(fs, node) == <<node>> \o (IF IsDir(fs, node) THEN WalkNames(fs, node, 1) ELSE <<>>)

\* remove_missing: the files the host tree lacks go first, then the
\* directories it lacks, the deepest first.
RECURSIVE RemoveEach(_, _, _, _)
RemoveEach(o, paths, idx, recursive) ==
  IF o.err # NoErr \/ idx > Len(paths) THEN o
  ELSE RemoveEach(Remove(o.fs, o.ad, o.ev, paths[idx], recursive), paths, idx + 1, recursive)

RECURSIVE DeepestFirst(_, _)
DeepestFirst(paths, depth) == IF depth = 0 THEN <<>> ELSE SelectSeq(paths, LAMBDA p : Len(p) = depth) \o DeepestFirst(paths, depth - 1)

RemoveMissing(o, host) ==
  LET walked == Walk(o.fs, Root)
      existing == [i \in 1..Len(walked) |-> NodePath(o.fs, walked[i])]
      existing_files == SelectSeq(existing, LAMBDA p : IsFileAt(o.fs, p))
      existing_dirs == SelectSeq(existing, LAMBDA p : IsDirAt(o.fs, p))
      files == RemoveEach(o, SelectSeq(existing_files, LAMBDA p : ~(p \in DOMAIN host /\ ~host[p].is_dir)), 1, FALSE)
  IN RemoveEach(files, SelectSeq(DeepestFirst(existing_dirs, MaxNodes), LAMBDA p : ~(p \in DOMAIN host /\ host[p].is_dir)), 1, TRUE)

\* sync_from_host, lines 113-121: is the file to be written?
ShouldWrite(fs, path, text) ==
  IF IsFileAt(fs, path)
  THEN LET existing == ReadFile(fs, path) IN IF existing.err # NoErr THEN TRUE ELSE existing.content # text
  ELSE TRUE

\* sync_from_host: SyncPaths is its loop over the sorted host paths.
RECURSIVE SyncPaths(_, _, _, _)
SyncPaths(o, host, paths, idx) ==
  IF o.err # NoErr \/ idx > Len(paths) THEN o
  ELSE LET Written(w) == SyncPaths(Outcome(w.fs, w.ad, o.ev \o w.ev, w.err), host, paths, idx + 1)
           MadeDirectory(m) == SyncPaths(Outcome(m.fs, o.ad, o.ev, m.err), host, paths, idx + 1)
           MadeParent(m) ==
             IF m.err # NoErr THEN Outcome(m.fs, o.ad, o.ev, m.err)
             ELSE IF ~ShouldWrite(m.fs, paths[idx], host[paths[idx]].text) THEN SyncPaths(Outcome(m.fs, o.ad, o.ev, NoErr), host, paths, idx + 1)
             ELSE Written(WriteFile(m.fs, o.ad, paths[idx], host[paths[idx]].text, FALSE, NoNode))
       IN IF host[paths[idx]].is_dir THEN MadeDirectory(Mkdir(o.fs, paths[idx], TRUE, TRUE))
          ELSE MadeParent(Mkdir(o.fs, Parent(paths[idx]), TRUE, TRUE))

SyncFromHost(fs, ad, host) ==
  LET Synced(synced) == IF synced.err # NoErr THEN synced ELSE RemoveMissing(synced, host) IN
  Synced(SyncPaths(Outcome(fs, ad, <<>>, NoErr), host, SortedBelow(host, <<>>, 1), 1))

\* tempfile.TemporaryDirectory leaving its with-block (materialize): the
\* directory and all it holds are deleted.  h is [pc, exists, tmp, exit_code, caller].
\* Faulty variant: the directory is deleted only when nothing was raised.
CleanupUnlessRaised(h) == IF h.pc = "raised" THEN h ELSE [h EXCEPT !.exists = FALSE, !.tmp = EmptyMap]

Cleanup(h) == [h EXCEPT !.exists = FALSE, !.tmp = EmptyMap]

\* run_host_process as one call; run is what the host does: [started, edits,
\* exit_code].  path: <<>> stands for None, <<p>> for p.
RunHostProcess(sh, o, path, run) ==
  LET target == IF path = <<>> THEN Pwd(o.fs) ELSE path[1]
      Synced(s) ==
        IF s.err # NoErr THEN Returned([s EXCEPT !.ev = o.ev \o @], <<>>, s.err, 1)
        ELSE Returned([s EXCEPT !.ev = o.ev \o @], <<>>, "", run.exit_code)
  IN IF EnsureVisiblePath(sh, o.fs, target) # NoErr THEN Raised(o, EnsureVisiblePath(sh, o.fs, target))
     ELSE IF ~run.started THEN Returned(o, <<>>, "FileNotFoundError", 127)
     ELSE Synced(SyncFromHost(o.fs, o.ad, HostProgram(ExportToPath(o.fs), run.edits)))

\* ------------------------------------------------------- shell_parser.py
\* A command line is the sequence of tokens shlex hands back; a token is a
\* word (a sequence of atoms) or one of the punctuation tokens below.  The
\* name of a command is the single atom of its token.
Pipe == <<"|">>

Less == <<"<">>

Greater == <<">">>

GreaterGreater == <<">>">>

\* CommandSpec.name is None.
NoName == ""

Equals == "="

\* The atoms that match [A-Za-z_][A-Za-z0-9_]*.
Identifiers == {"FOO", "BAR", "h", "x", "a", "b", "d", "echo", "cat", "rm", "ls"}

\* _ASSIGNMENT_RE.match(token)
IsAssignment(token) == Len(token) >= 2 /\ token[1] \in Identifiers /\ token[2] = Equals

\* dict.__setitem__ on a dict kept as a sequence of [key, value] in
\* insertion order: a key already there keeps its place.
SetItem(dict, key, value) ==
  IF \E i \in 1..Len(dict) : dict[i].key = key
  THEN [i \in 1..Len(dict) |-> IF dict[i].key = key THEN [key |-> key, value |-> value] ELSE dict[i]]
  ELSE Append(dict, [key |-> key, value |-> value])

HasKey(dict, key) == \E i \in 1..Len(dict) : dict[i].key = key

\* dict.get(key, ""), on the same representation.
GetItem(dict, key) == IF HasKey(dict, key) THEN dict[CHOOSE i \in 1..Len(dict) : dict[i].key = key].value ELSE <<>>

CommandSpec(name, args, assignments, stdin, stdout, append) == [name |-> name, args |-> args, assignments |-> assignments, stdin |-> stdin, stdout |-> stdout, append |-> append]

NoCommand == CommandSpec(NoName, <<>>, <<>>, <<>>, <<>>, FALSE)

MissingTarget == "Missing redirection target"

MissingCommand == "Missing command before pipe or end of line"

RedirectionWithoutCommand == "Redirection without command is not supported"

\* _finalize_command: the ValueError raised, or "" when the command is kept.
FinalizeCommand(command) ==
  IF command.name = NoName /\ command.assignments = <<>> THEN MissingCommand
  ELSE IF command.name = NoName /\ (command.stdin # <<>> \/ command.stdout # <<>>) THEN RedirectionWithoutCommand
  ELSE ""

\* parse_pipeline: [err, commands]; Tokens is its while loop.
RECURSIVE Tokens(_, _, _, _)
Tokens(tokens, idx, commands, current) ==
  IF idx > Len(tokens)
  THEN IF FinalizeCommand(current) # "" THEN [err |-> FinalizeCommand(current), commands |-> <<>>]
       ELSE [err |-> "", commands |-> Append(commands, current)]
  ELSE IF tokens[idx] = Pipe
  THEN IF FinalizeCommand(current) # "" THEN [err |-> FinalizeCommand(current), commands |-> <<>>]
       ELSE Tokens(tokens, idx + 1, Append(commands, current), NoCommand)
  ELSE IF tokens[idx] \in {Less, Greater, GreaterGreater}
  THEN IF idx + 1 > Len(tokens) THEN [err |-> MissingTarget, commands |-> <<>>]
       ELSE IF tokens[idx] = Less THEN Tokens(tokens, idx + 2, commands, [current EXCEPT !.stdin = <<tokens[idx + 1]>>])
       ELSE Tokens(tokens, idx + 2, commands, [current EXCEPT !.stdout = <<tokens[idx + 1]>>, !.append = tokens[idx] = GreaterGreater])
  ELSE IF current.name = NoName /\ IsAssignment(tokens[idx])
  THEN Tokens(tokens, idx + 1, commands, [current EXCEPT !.assignments = SetItem(@, tokens[idx][1], SubSeq(tokens[idx], 3, Len(tokens[idx])))])
  ELSE IF current.name = NoName THEN Tokens(tokens, idx + 1, commands, [current EXCEPT !.name = tokens[idx][1]])
  ELSE Tokens(tokens, idx + 1, commands, [current EXCEPT !.args = Append(@, tokens[idx])])

ParsePipeline(tokens) == IF tokens = <<>> THEN [err |-> "", commands |-> <<>>] ELSE Tokens(tokens, 1, <<>>, NoCommand)

\* SandboxShell._expand_vars on a word: a reference atom gives way to the
\* value env holds for its name, or to nothing.
Variables == ("$FOO" :> "FOO") @@ ("$BAR" :> "BAR")

\* Faulty variant: references are left as they are written.
ExpandVarsNever(token, env) == token

RECURSIVE ExpandVars(_, _)
ExpandVars(token, env) ==
  IF token = <<>> THEN <<>>
  ELSE (IF Head(token) \in DOMAIN Variables THEN GetItem(env, Variables[Head(token)]) ELSE <<Head(token)>>) \o ExpandVars(Tail(token), env)

\* _expand_vars on a command name, for values of at most one atom.
ExpandName(name, env) ==
  IF name \notin DOMAIN Variables THEN name
  ELSE IF GetItem(env, Variables[name]) = <<>> THEN "" ELSE GetItem(env, Variables[name])[1]

\* SandboxShell._expand_args before the globs: the word after -c or -lc of
\* bash and sh is left as it is.
RECURSIVE ExpandEach(_, _, _, _, _)
ExpandEach(args, env, command_name, idx, skip_next) ==
  IF idx > Len(args) THEN <<>>
  ELSE IF skip_next THEN <<args[idx]>> \o ExpandEach(args, env, command_name, idx + 1, FALSE)
  ELSE IF command_name \in {"bash", "sh"} /\ args[idx] \in {<<"-c">>, <<"-lc">>} THEN <<args[idx]>> \o ExpandEach(args, env, command_name, idx + 1, TRUE)
  ELSE <<ExpandVars(args[idx], env)>> \o ExpandEach(args, env, command_name, idx + 1, FALSE)

\* env.update(expanded_assignments), each value expanded in the old env.
RECURSIVE UpdateEnv(_, _, _, _)
UpdateEnv(env, assignments, idx, old) ==
  IF idx > Len(assignments) THEN env
  ELSE UpdateEnv(SetItem(env, assignments[idx].key, ExpandVars(assignments[idx].value, old)), assignments, idx + 1, old)

\* The loop of _exec_pipeline over a line of assignments only: self.env
\* takes each value, expanded in self.env as it then is.
RECURSIVE StoreEnv(_, _, _)
StoreEnv(env, assignments, idx) ==
  IF idx > Len(assignments) THEN env
  ELSE StoreEnv(SetItem(env, assignments[idx].key, ExpandVars(assignments[idx].value, env)), assignments, idx + 1)

\* --------------------------------------------------- the shell: dispatch
\* Words and paths are sequences; a command is [name, args, stdin, stdout,
\* append], with <<>> for a redirection that is absent and <<p>> for one to
\* the path p (parse_pipeline, on tokens that hold no variable).
Star == <<"*">>

Dash == <<"-">>

Newline == <<"\n">>

Space == <<" ">>

\* SandboxShell._read_from_path on a plain path: [err, content].
ReadFromPath(sh, fs, path) ==
  IF EnsureVisiblePath(sh, fs, path) # NoErr THEN [err |-> EnsureVisiblePath(sh, fs, path), content |-> None]
  ELSE ReadFile(fs, path)

\* SandboxShell._write_to_path on a plain path.
WriteToPath(sh, o, path, content, append) ==
  IF EnsureVisiblePath(sh, o.fs, path) # NoErr THEN Outcome(o.fs, o.ad, o.ev, EnsureVisiblePath(sh, o.fs, path))
  ELSE LET w == WriteFile(o.fs, o.ad, path, content, append, NoNode) IN Outcome(w.fs, w.ad, o.ev \o w.ev, w.err)

\* SandboxShell._expand_globs: [err, args].  The pattern "*" stands for the
\* names vfs.glob finds in the working directory; with no match it stays.
RECURSIVE ExpandGlobs(_, _, _, _, _)
ExpandGlobs(sh, fs, args, idx, expanded) ==
  IF idx > Len(args) THEN [err |-> NoErr, args |-> expanded]
  ELSE IF args[idx] # Star THEN ExpandGlobs(sh, fs, args, idx + 1, Append(expanded, args[idx]))
  ELSE LET matches == Ls(fs, Pwd(fs), sh.view) IN
       IF matches.err # NoErr THEN [err |-> matches.err, args |-> expanded]
       ELSE IF matches.entries = <<>> THEN ExpandGlobs(sh, fs, args, idx + 1, Append(expanded, args[idx]))
       ELSE ExpandGlobs(sh, fs, args, idx + 1, expanded \o [i \in 1..Len(matches.entries) |-> NodePath(fs, matches.entries[i])])

\* The cat command; CatBlobs is its loop over the arguments.
RECURSIVE CatBlobs(_, _, _, _, _, _)
CatBlobs(sh, o, args, stdin, idx, blobs) ==
  IF idx > Len(args) THEN Returned(o, blobs, "", 0)
  ELSE IF args[idx] = Dash THEN CatBlobs(sh, o, args, stdin, idx + 1, blobs \o stdin)
  ELSE LET r == ReadFromPath(sh, o.fs, args[idx]) IN
       IF r.err # NoErr THEN Raised(o, r.err) ELSE CatBlobs(sh, o, args, stdin, idx + 1, blobs \o r.content)

CmdCat(sh, o, args, stdin) == IF args = <<>> \/ args = <<Dash>> THEN Returned(o, stdin, "", 0) ELSE CatBlobs(sh, o, args, stdin, 1, <<>>)

\* The echo command: " ".join(args), and a newline unless -n comes first.
RECURSIVE Join(_)
Join(words) == IF words = <<>> THEN <<>> ELSE IF Len(words) = 1 THEN words[1] ELSE words[1] \o Space \o Join(Tail(words))

CmdEcho(sh, o, args) == IF args # <<>> /\ args[1] = <<"-n">> THEN Returned(o, Join(Tail(args)), "", 0) ELSE Returned(o, Join(args) \o Newline, "", 0)

\* The rm command; RmTargets is its loop over the targets.
RECURSIVE RmTargets(_, _, _, _, _)
RmTargets(sh, o, targets, idx, recursive) ==
  IF idx > Len(targets) THEN Returned(o, <<>>, "", 0)
  ELSE IF EnsureVisiblePath(sh, o.fs, targets[idx]) # NoErr THEN Raised(o, EnsureVisiblePath(sh, o.fs, targets[idx]))
  ELSE LET r == Remove(o.fs, o.ad, o.ev, targets[idx], recursive) IN
       IF r.err # NoErr THEN Raised(r, r.err) ELSE RmTargets(sh, r, targets, idx + 1, recursive)

RmFlags == {<<"-r">>, <<"-rf">>, <<"-R">>, <<"--recursive">>}

CmdRm(sh, o, args) ==
  LET targets == SelectSeq(args, LAMBDA arg : arg \notin RmFlags) IN
  IF targets = <<>> THEN Returned(o, <<>>, "rm expects a target", 2)
  ELSE RmTargets(sh, o, targets, 1, \E i \in 1..Len(args) : args[i] \in RmFlags)

\* _register_builtin_commands, for the commands modelled.
Builtins == {"cd", "ls", "tree", "find", "cat", "echo", "rm", "sh"}

\* The budget of test_agent_mode_output_limit.
MaxOutputBytes == 5

OutputLimitExceeded == "Output limit exceeded"

\* len() of a message on stderr: every message of the commands modelled is
\* longer than MaxOutputBytes, and only that is kept of its length.
StderrLength(stderr) == IF stderr = "" THEN 0 ELSE MaxOutputBytes + 1

\* SandboxShell._enforce_output_limit
EnforceOutputLimit(sh, result) ==
  IF ~sh.max_output_bytes.given THEN result
  ELSE IF Len(result.stdout) + StderrLength(result.stderr) <= sh.max_output_bytes.set THEN result
  ELSE [result EXCEPT !.stdout = <<>>, !.stderr = OutputLimitExceeded, !.exit_code = 1]

\* The handler registered under a name; run is what a host process does.
Handler(sh, o, name, args, stdin, run) ==
  CASE name = "cd" -> CmdCd(sh, o, args)
    [] name = "ls" -> CmdLs(sh, o, args)
    [] name = "tree" -> CmdTree(sh, o, args)
    [] name = "find" -> CmdFind(sh, o, args)
    [] name = "cat" -> CmdCat(sh, o, args, stdin)
    [] name = "echo" -> CmdEcho(sh, o, args)
    [] name = "rm" -> CmdRm(sh, o, args)
    [] name = "sh" -> RunHostProcess(sh, o, <<>>, run)

\* _run_command, line 352: is the command outside the allow-list?
Disabled(sh, name) == sh.allowed_commands.given /\ name \notin sh.allowed_commands.set

\* SandboxShell._run_command: the handler's result with ran, which tells
\* whether a handler was called or a host process asked for.
RunCommand(sh, o, name, args, stdin, run) ==
  IF name \notin Builtins
  THEN IF sh.host_fallback THEN [ran |-> TRUE] @@ RunHostProcess(sh, o, <<>>, run)
       ELSE [ran |-> FALSE] @@ Returned(o, <<>>, "Unknown command", 127)
  ELSE IF Disabled(sh, name) THEN [ran |-> FALSE] @@ Returned(o, <<>>, "Command is disabled in this shell", 1)
  ELSE LET Handled(result) ==
             IF result.raised # NoErr THEN [ran |-> TRUE] @@ Returned(result, <<>>, result.raised, 1)
             ELSE [ran |-> TRUE] @@ EnforceOutputLimit(sh, result)
       IN Handled(Handler(sh, o, name, args, stdin, run))

\* SandboxShell.__init__: an empty allow-list counts as none.
SandboxShell(view, allowed_commands, host_fallback) == [view |-> view, allowed_commands |-> IF allowed_commands.given /\ allowed_commands.set # {} THEN allowed_commands ELSE Unset, host_fallback |-> host_fallback, env |-> <<>>, max_output_bytes |-> Unset]

Command(name, args, stdin, stdout, append) == CommandSpec(name, args, <<>>, stdin, stdout, append)

\* What exec hands back, or the exception it lets through (raised); st is
\* the facade with the observer's notes: trace lists the commands that were
\* run (handler called or host process asked for) with their exit codes, in
\* order, and wrote the redirection targets written.
Result(st, stdout, stderr, exit_code, raised) == [fs |-> st.fs, ad |-> st.ad, ev |-> st.ev, env |-> st.env, trace |-> st.trace, wrote |-> st.wrote, stdout |-> stdout, stderr |-> stderr, exit_code |-> exit_code, raised |-> raised]

After(st, o) == [st EXCEPT !.fs = o.fs, !.ad = o.ad, !.ev = o.ev]

\* Faulty variant: no exit code stops a pipeline or an input.
FailedNever(result) == FALSE

\* The test "exit_code != 0" of _exec_pipeline and of exec.
Failed(result) == result.exit_code # 0

\* SandboxShell._exec_pipeline: Segments is its loop over the commands.
RECURSIVE Segments(_, _, _, _, _, _)
Segments(sh, st, pipeline, idx, stdout_pipe, run) ==
  IF idx > Len(pipeline) THEN EnforceOutputLimit(sh, Result(st, stdout_pipe, "", 0, NoErr))
  ELSE IF pipeline[idx].name = NoName THEN Result(st, <<>>, "Missing command in pipeline", 2, NoErr)
  ELSE LET spec == pipeline[idx]
           env == UpdateEnv(st.env, spec.assignments, 1, st.env)
           name == ExpandName(spec.name, env)
           Wrote(ran, w) ==
             IF w.err # NoErr THEN Result(After(ran, w), <<>>, "", 0, w.err)
             ELSE Segments(sh, [After(ran, w) EXCEPT !.wrote = Append(@, ExpandVars(spec.stdout[1], env))], pipeline, idx + 1, <<>>, run)
           Output(ran, result) ==
             IF result.raised # NoErr THEN Result(ran, <<>>, "", 0, result.raised)
             ELSE IF Failed(result) THEN EnforceOutputLimit(sh, Result(ran, result.stdout, result.stderr, result.exit_code, NoErr))
             ELSE IF spec.stdout = <<>> THEN Segments(sh, ran, pipeline, idx + 1, result.stdout, run)
             ELSE Wrote(ran, WriteToPath(sh, ran, ExpandVars(spec.stdout[1], env), result.stdout, spec.append))
           Ran(result) == Output([After(st, result) EXCEPT !.trace = IF result.ran THEN Append(@, [spec |-> spec, exit_code |-> result.exit_code]) ELSE @], result)
           Run(expanded, source) ==
             IF expanded.err # NoErr THEN Result(st, <<>>, "", 0, expanded.err)
             ELSE IF source.err # NoErr THEN Result(st, <<>>, "", 0, source.err)
             ELSE Ran(RunCommand(sh, st, name, expanded.args, source.content, run))
       IN Run(ExpandGlobs(sh, st.fs, ExpandEach(spec.args, env, name, 1, FALSE), 1, <<>>), IF spec.stdin = <<>> THEN [err |-> NoErr, content |-> stdout_pipe] ELSE ReadFromPath(sh, st.fs, ExpandVars(spec.stdin[1], env)))

\* _exec_pipeline from line 288 on, for the commands parse_pipeline gave.
ExecPipeline(sh, st, pipeline, run) ==
  IF pipeline = <<>> THEN Result(st, <<>>, "", 0, NoErr)
  ELSE IF Len(pipeline) = 1 /\ pipeline[1].name = NoName THEN Result([st EXCEPT !.env = StoreEnv(@, pipeline[1].assignments, 1)], <<>>, "", 0, NoErr)
  ELSE Segments(sh, st, pipeline, 1, <<>>, run)

\* _exec_pipeline on a command line: a ValueError of the parser is exit code 2.
ExecCommandLine(sh, st, tokens, run) ==
  LET Parsed(pipeline) == IF pipeline.err # "" THEN Result(st, <<>>, pipeline.err, 2, NoErr) ELSE ExecPipeline(sh, st, pipeline.commands, run)
  IN Parsed(ParsePipeline(tokens))

\* SandboxShell.exec: Lines is its loop over the lines of the input.
RECURSIVE Lines(_, _, _, _, _, _)
Lines(sh, st, lines, idx, last_result, run) ==
  IF idx > Len(lines) THEN last_result
  ELSE LET Continue(r) ==
             IF r.raised # NoErr \/ Failed(r) THEN r
             ELSE Lines(sh, [fs |-> r.fs, ad |-> r.ad, ev |-> r.ev, env |-> r.env, trace |-> r.trace, wrote |-> r.wrote], lines, idx + 1, r, run)
       IN Continue(ExecPipeline(sh, st, lines[idx], run))

Exec(sh, fs, ad, lines, run) == LET st == [fs |-> fs, ad |-> ad, ev |-> <<>>, env |-> sh.env, trace |-> <<>>, wrote |-> <<>>] IN Lines(sh, st, lines, 1, Result(st, <<>>, "", 0, NoErr), run)

\* ------------------------------------------------------------ the machine
\* The facade under test serves the adapter "A" at /m, with an index and one
\* write hook and one path hook on "/"; the adapter was constructed with
\* initial={"a": "x"}.
MountPoint == <<"m">>

InitialEntries == (<<"a">> :> StorageEntry(<<"x">>, 0))

InitialAdapters == [a \in AdapterIds |-> IF a = "A" THEN InitialEntries ELSE EmptyMap]

Configured == RegisterPathHook(RegisterWriteHook(EnableFullTextIndex(EmptyVFS), <<>>), <<>>)

Mounted == Collect(MountStorage(Configured, InitialAdapters, MountPoint, "A", {}).fs)

\* The call a step made: the facade it was made on, its name, its arguments
\* and the exception it raised.
Call(op, path, target, data, append, expected_version, recursive) == [facade |-> 1, op |-> op, path |-> path, target |-> target, data |-> data, append |-> append, expected_version |-> expected_version, recursive |-> recursive, err |-> NoErr]

NoCall == Call("", <<>>, <<>>, <<>>, FALSE, NoNode, FALSE)

\* The model's bounds: an outcome beyond them is not explored.
InBounds(o) ==
  /\ o.err # OutOfIds
  /\ \A i \in Ids : Len(o.fs.nodes[i].content) <= MaxLen /\ o.fs.nodes[i].version <= MaxVersion
  /\ \A a \in AdapterIds : \A k \in DOMAIN o.ad[a] : Len(o.ad[a][k].content) <= MaxLen /\ o.ad[a][k].version <= MaxVersion

\* A call on a facade (1: vfs, 2: vfs2) with outcome o; h is the observer's
\* bookkeeping after the call.
ApplyOn(facade, o, call, h) ==
  /\ InBounds(o)
  /\ IF facade = 1 THEN vfs' = Collect(o.fs) /\ UNCHANGED vfs2 ELSE vfs2' = Collect(o.fs) /\ UNCHANGED vfs
  /\ adapters' = o.ad
  /\ events' = o.ev
  /\ last' = [call EXCEPT !.err = o.err, !.facade = facade]
  /\ hist' = h

Apply(o, call) == ApplyOn(1, o, call, hist)

\* ---------------------------------------------------------------- calls
\* The calls the specifications below draw their steps from.
DoWriteFile(paths, payloads, appends, versions) == \E path \in paths, data \in payloads, append \in appends, ev \in versions : Apply(WriteFile(vfs, adapters, path, data, append, ev), Call("write_file", path, <<>>, data, append, ev, FALSE))

DoRemove(paths, flags) == \E path \in paths, recursive \in flags : Apply(Remove(vfs, adapters, <<>>, path, recursive), Call("remove", path, <<>>, <<>>, FALSE, NoNode, recursive))

DoMove(sources, targets) == \E source \in sources, target \in targets : Apply(Move(vfs, adapters, source, target), Call("move", source, target, <<>>, FALSE, NoNode, FALSE))

DoCopy(sources, targets) == \E source \in sources, target \in targets : Apply(Copy(vfs, adapters, source, target, TRUE), Call("copy", source, target, <<>>, FALSE, NoNode, TRUE))

DoTouch(paths) == \E path \in paths : Apply(Touch(vfs, adapters, path), Call("touch", path, <<>>, <<>>, FALSE, NoNode, FALSE))

DoSetPolicy(paths, policies) == \E path \in paths, policy \in policies : Apply(SetPolicy(vfs, adapters, path, policy), Call("set_policy", path, <<>>, <<>>, FALSE, NoNode, FALSE))

\* shell.exec(lines) on the facade; hist keeps the input and what came back,
\* last.err the exception exec let through.
NoRun == [started |-> FALSE, edits |-> <<>>, exit_code |-> 0]

NoResult == [lines |-> <<>>, stdout |-> <<>>, stderr |-> "", exit_code |-> 0, trace |-> <<>>, wrote |-> <<>>]

DoExec(sh, inputs, runs) ==
  \E lines \in inputs, run \in runs :
    LET Done(r) == ApplyOn(1, Outcome(r.fs, r.ad, r.ev, r.raised), Call("exec", <<>>, <<>>, <<>>, FALSE, NoNode, FALSE), [lines |-> lines, stdout |-> r.stdout, stderr |-> r.stderr, exit_code |-> r.exit_code, trace |-> r.trace, wrote |-> r.wrote])
    IN Done(Exec(sh, vfs, adapters, lines, run))

DoSyncStorage(path) == Apply(SyncStorage(vfs, adapters, path), Call("sync_storage", path, <<>>, <<>>, FALSE, NoNode, FALSE))

\* Another holder of adapter "A" writes an entry (adapter.read, then
\* adapter.write with the version read; version 0 for a new key).
DoAdapterWrite(keys, payloads) ==
  \E key \in keys, data \in payloads :
    LET a == adapters["A"]
        w == AdapterWrite(a, key, data, IF key \in DOMAIN a THEN a[key].version ELSE 0)
    IN Apply(Outcome(vfs, [adapters EXCEPT !["A"] = w.a], <<>>, w.err), Call("adapter.write", key, <<>>, data, FALSE, NoNode, FALSE))

\* Another holder of adapter "A" deletes an entry.
DoAdapterDelete(keys) == \E key \in keys : key \in DOMAIN adapters["A"] /\ Apply(Outcome(vfs, [adapters EXCEPT !["A"] = AdapterDelete(@, key)], <<>>, NoErr), Call("adapter.delete", key, <<>>, <<>>, FALSE, NoNode, FALSE))

\* ------------------------------------------------ Spec: the storage mount
\* Writes, appends and removes of a file under the mount, sync, and a second
\* holder of the adapter.
Local == {<<"x">>}
Foreign == {<<"y">>}
ExpectedVersions == {NoNode, 1}

Init ==
  /\ vfs = Mounted
  /\ vfs2 = EmptyVFS
  /\ adapters = InitialAdapters
  /\ events = <<>>
  /\ last = NoCall
  /\ hist = EmptyMap

Next ==
  \/ DoWriteFile({<<"m", "a">>}, Local, BOOLEAN, ExpectedVersions)
  \/ DoRemove({<<"m", "a">>}, {FALSE})
  \/ DoSyncStorage(MountPoint)
  \/ DoAdapterWrite({<<"a">>, <<"b">>}, Foreign)
  \/ DoAdapterDelete({<<"a">>})

Spec == Init /\ [][Next]_vars

\* ------------------------------ SpecShared: two facades on one adapter
\* Two VirtualFileSystem instances mounted on adapter "A"; the first writes
\* "x", the second "y".
Facade(f) == IF f = 1 THEN vfs ELSE vfs2

SharedFile == <<"m", "a">>

NoRound == [base |-> NoNode, w |-> <<>>]

\* The observer's round: it opens with a write made while both facades hold
\* the file at the same version (base), and is complete with the other facade's
\* write following it directly.
RoundAfterWrite(f, o, data, append) ==
  LET w == [facade |-> f, err |-> o.err, data |-> data, append |-> append] IN
  IF Len(hist.w) = 1 /\ hist.w[1].facade # f THEN [hist EXCEPT !.w = Append(@, w)]
  ELSE IF IsFileAt(vfs, SharedFile) /\ IsFileAt(vfs2, SharedFile) /\ GetVersion(vfs, SharedFile) = GetVersion(vfs2, SharedFile)
       THEN [base |-> GetVersion(vfs, SharedFile), w |-> <<w>>]
       ELSE NoRound

SharedWrite(f, data) == \E append \in BOOLEAN : LET o == WriteFile(Facade(f), adapters, SharedFile, data, append, NoNode) IN ApplyOn(f, o, Call("write_file", SharedFile, <<>>, data, append, NoNode, FALSE), RoundAfterWrite(f, o, data, append))

SharedSync(f) == ApplyOn(f, SyncStorage(Facade(f), adapters, MountPoint), Call("sync_storage", MountPoint, <<>>, <<>>, FALSE, NoNode, FALSE), NoRound)

SharedRemove(f) == ApplyOn(f, Remove(Facade(f), adapters, <<>>, SharedFile, FALSE), Call("remove", SharedFile, <<>>, <<>>, FALSE, NoNode, FALSE), NoRound)

InitShared ==
  /\ vfs = Mounted
  /\ vfs2 = Mounted
  /\ adapters = InitialAdapters
  /\ events = <<>>
  /\ last = NoCall
  /\ hist = NoRound

NextShared ==
  \/ SharedWrite(1, <<"x">>)
  \/ SharedWrite(2, <<"y">>)
  \/ SharedSync(1)
  \/ SharedSync(2)
  \/ SharedRemove(1)
  \/ SharedRemove(2)

SpecShared == InitShared /\ [][NextShared]_vars

\* ------------------------------------- SpecWrites: counting the writes
\* Writes, appends and removes of a file outside the mount and of one under
\* it. The observer counts, for each path, the successful writes since the path
\* last had no node.
FreshFile == <<"b">>

WrittenPaths == {FreshFile, SharedFile}

CountAfterWrite(o, path) == IF o.err = NoErr /\ path \in DOMAIN hist THEN [hist EXCEPT ![path] = @ + 1] ELSE hist

CountAfterRemove(o, path) == IF o.err = NoErr THEN (path :> 0) @@ hist ELSE hist

InitWrites ==
  /\ vfs = Mounted
  /\ vfs2 = EmptyVFS
  /\ adapters = InitialAdapters
  /\ events = <<>>
  /\ last = NoCall
  /\ hist = (FreshFile :> 0)

CountedWrite(paths, payloads, appends, versions) == \E path \in paths, data \in payloads, append \in appends, ev \in versions : LET o == WriteFile(vfs, adapters, path, data, append, ev) IN ApplyOn(1, o, Call("write_file", path, <<>>, data, append, ev, FALSE), CountAfterWrite(o, path))

CountedRemove == \E path \in WrittenPaths : LET o == Remove(vfs, adapters, <<>>, path, FALSE) IN ApplyOn(1, o, Call("remove", path, <<>>, <<>>, FALSE, NoNode, FALSE), CountAfterRemove(o, path))

NextWrites ==
  \/ CountedWrite({FreshFile}, Local \cup Foreign, BOOLEAN, ExpectedVersions)
  \/ CountedWrite({SharedFile}, Local, BOOLEAN, {NoNode})
  \/ CountedRemove

SpecWrites == InitWrites /\ [][NextWrites]_vars

\* ------------------------------ SpecRemove: removing under the mount
\* The adapter lists a file and a file in a directory; files and directories
\* under the mount are removed, also recursively, and written again.
NestedEntries == (<<"a">> :> StorageEntry(<<"x">>, 0)) @@ (<<"d", "a">> :> StorageEntry(<<"y">>, 0))

NestedAdapters == [a \in AdapterIds |-> IF a = "A" THEN NestedEntries ELSE EmptyMap]

MountedNested == Collect(MountStorage(Configured, NestedAdapters, MountPoint, "A", {}).fs)

InitRemove ==
  /\ vfs = MountedNested
  /\ vfs2 = EmptyVFS
  /\ adapters = NestedAdapters
  /\ events = <<>>
  /\ last = NoCall
  /\ hist = EmptyMap

NextRemove ==
  \/ DoRemove({<<"m", "a">>, <<"m", "d", "a">>, <<"m", "d", "b">>}, {FALSE})
  \/ DoRemove({<<"m">>, <<"m", "d">>}, BOOLEAN)
  \/ DoWriteFile({<<"m", "a">>, <<"m", "d", "a">>, <<"m", "d", "b">>}, Local, {FALSE}, {NoNode})

SpecRemove == InitRemove /\ [][NextRemove]_vars

\* ------------------------------- SpecPersist: mutations under the mount
\* Writes, removes, moves and copies under the mount; nobody else touches the
\* adapter.
InitPersist ==
  /\ vfs = Mounted
  /\ vfs2 = EmptyVFS
  /\ adapters = InitialAdapters
  /\ events = <<>>
  /\ last = NoCall
  /\ hist = EmptyMap

NextPersist ==
  \/ DoWriteFile({<<"m", "a">>}, Local, BOOLEAN, {NoNode})
  \/ DoRemove({<<"m", "a">>, <<"m", "b">>}, {FALSE})
  \/ DoMove({<<"m", "a">>, <<"m", "b">>}, {<<"m", "a">>, <<"m", "b">>})
  \/ DoCopy({<<"m", "a">>}, {<<"m", "b">>})

SpecPersist == InitPersist /\ [][NextPersist]_vars

\* --------------------------------------- SpecMove: moving and copying
\* A tree without mounts holding the directory /d; /a and /b are written, and
\* files are moved and copied onto free paths, onto files and into the directory.
Tree == Collect(Mkdir(Configured, <<"d">>, FALSE, FALSE).fs)

InitMove ==
  /\ vfs = Tree
  /\ vfs2 = EmptyVFS
  /\ adapters = InitialAdapters
  /\ events = <<>>
  /\ last = NoCall
  /\ hist = EmptyMap

MovedFiles == {<<"a">>, <<"d", "a">>}

NextMove ==
  \/ DoMove(MovedFiles, {<<"a">>, <<"b">>, <<"d">>})
  \/ DoCopy({<<"a">>}, {<<"a">>, <<"b">>})
  \/ DoWriteFile({<<"a">>}, Local, {FALSE}, {NoNode})
  \/ DoWriteFile({<<"b">>}, Foreign, {FALSE}, {NoNode})

SpecMove == InitMove /\ [][NextMove]_vars

\* ------------------------------------ SpecDirs: directories moved and copied
\* A tree holding the directory /d and the directory /d/m in it; /d/a is
\* written, and the directories are moved and copied (recursively) onto
\* themselves, into themselves and elsewhere.
NestedTree == Collect(Mkdir(Configured, <<"d", "m">>, TRUE, FALSE).fs)

InitDirs ==
  /\ vfs = NestedTree
  /\ vfs2 = EmptyVFS
  /\ adapters = InitialAdapters
  /\ events = <<>>
  /\ last = NoCall
  /\ hist = EmptyMap

InsideD == {<<"d">>, <<"d", "a">>, <<"d", "b">>, <<"d", "m">>}

NextDirs ==
  \/ DoMove({<<"d">>, <<"d", "m">>}, InsideD \cup {<<"b">>})
  \/ DoCopy({<<"d">>}, InsideD)
  \/ DoWriteFile({<<"d", "a">>}, Local, {FALSE}, {NoNode})

SpecDirs == InitDirs /\ [][NextDirs]_vars

\* ------------------------------------------- SpecPolicy: an append-only file
\* /d/a is written and made append-only; then writes, appends, touches, a copy
\* onto it, moves and removes of it and of its directory.
TwoDirs == Collect(Mkdir(Configured, <<"b", "d">>, TRUE, FALSE).fs)

InitPolicy ==
  /\ vfs = TwoDirs
  /\ vfs2 = EmptyVFS
  /\ adapters = InitialAdapters
  /\ events = <<>>
  /\ last = NoCall
  /\ hist = EmptyMap

Protected == <<"d", "a">>

AppendOnlyPolicy == [DefaultPolicy EXCEPT !.append_only = TRUE]

NextPolicy ==
  \/ DoWriteFile({Protected}, Local, {FALSE, TRUE}, {NoNode})
  \/ DoSetPolicy({Protected}, {AppendOnlyPolicy})
  \/ DoTouch({Protected})
  \/ DoCopy({<<"b">>}, {Protected})
  \/ DoMove({Protected, <<"d">>}, {<<"b">>, <<"a">>})
  \/ DoRemove({Protected, <<"d">>}, {TRUE})

SpecPolicy == InitPolicy /\ [][NextPolicy]_vars

\* --------------------------------------------- SpecView: VisibilityView.allows
\* allows() on every view and policy over two classifications and two
\* principals; hist holds the view, the policy and the answer of the last call.
Classifications == {"public", "secret"}

Principals == {"alice", "bob"}

OptionalSets(universe) == {Unset} \cup {Given(s) : s \in SUBSET universe}

Views == {VisibilityView(c, p, Unset) : c \in OptionalSets(Classifications), p \in OptionalSets(Principals)}

Policies == {[DefaultPolicy EXCEPT !.classification = c, !.principals = p] : c \in Classifications, p \in SUBSET Principals}

NotAsked == "not asked"

InitView ==
  /\ vfs = EmptyVFS
  /\ vfs2 = EmptyVFS
  /\ adapters = InitialAdapters
  /\ events = <<>>
  /\ last = NoCall
  /\ hist \in {[view |-> v, policy |-> p, allows |-> NotAsked] : v \in Views, p \in Policies}

DoAllows ==
  /\ hist.allows = NotAsked
  /\ hist' = [hist EXCEPT !.allows = IF Allows(hist.view, hist.policy) THEN "yes" ELSE "no"]
  /\ last' = [NoCall EXCEPT !.op = "allows"]
  /\ UNCHANGED <<vfs, vfs2, adapters, events>>

NextView == DoAllows

SpecView == InitView /\ [][NextView]_vars

\* ------------------------------------------- SpecHost: a host command, step by step
\* /d/a holds "x".  materialize() and run_host_process go through their
\* with-block one step at a time: the temporary directory is made and the tree
\* exported, the host process edits the directory and exits (or cannot be
\* started), the directory is read back, the with-block is left.  hist is
\* [pc, exists, tmp, exit_code, caller]; the facade is called only between
\* host commands.
OneFile == Collect(WriteFile(Configured, InitialAdapters, <<"d", "a">>, <<"x">>, FALSE, NoNode).fs)

Idle == [pc |-> "idle", exists |-> FALSE, tmp |-> EmptyMap, exit_code |-> 0, caller |-> ""]

InitHost ==
  /\ vfs = OneFile
  /\ vfs2 = EmptyVFS
  /\ adapters = InitialAdapters
  /\ events = <<>>
  /\ last = NoCall
  /\ hist = Idle

PublicShell == [view |-> VisibilityView(Unset, Unset, Unset), allowed_commands |-> Unset, host_fallback |-> TRUE]

HostEdits == {[kind |-> "write", path |-> <<"d", "a">>, text |-> <<"y">>], [kind |-> "write", path |-> <<"b">>, text |-> <<"x">>], [kind |-> "rm", path |-> <<"d", "a">>, text |-> <<>>], [kind |-> "rm", path |-> <<"d">>, text |-> <<>>], [kind |-> "mkdir", path |-> <<"d", "a">>, text |-> <<>>]}

HostPrograms == {<<>>} \cup {<<e>> : e \in HostEdits} \cup {<<e, f>> : e, f \in HostEdits}

ExitCodes == {0, 1}

Unreadable == [DefaultPolicy EXCEPT !.readable = FALSE]

Step(o, op, h) == ApplyOn(1, o, Call(op, <<>>, <<>>, <<>>, FALSE, NoNode, FALSE), h)

\* with self.vfs.materialize("/") as fs_root: entered.
EnterScope(sh, callers) ==
  /\ hist.pc = "idle"
  /\ EnsureVisiblePath(sh, vfs, Pwd(vfs)) = NoErr
  /\ \E caller \in callers : Step(Outcome(vfs, adapters, <<>>, NoErr), "materialize", [pc |-> "materialized", exists |-> TRUE, tmp |-> ExportToPath(vfs), exit_code |-> 0, caller |-> caller])

\* The temporary directory is made and export_to_path raises (a node's
\* content cannot be read): the exception leaves the with-block.
ExportRaises(callers) ==
  /\ hist.pc = "idle"
  /\ \E caller \in callers : Step(Outcome(vfs, adapters, <<>>, NotReadable), "materialize", [pc |-> "raised", exists |-> TRUE, tmp |-> EmptyMap, exit_code |-> 1, caller |-> caller])

\* subprocess.run returns.
ProcessExits(programs, codes) ==
  /\ hist.pc = "materialized" /\ hist.caller = "host"
  /\ \E edits \in programs, code \in codes : Step(Outcome(vfs, adapters, <<>>, NoErr), "subprocess.run", [hist EXCEPT !.pc = "exited", !.tmp = HostProgram(@, edits), !.exit_code = code])

\* subprocess.run raises FileNotFoundError.
ProcessNotStarted ==
  /\ hist.pc = "materialized" /\ hist.caller = "host"
  /\ Step(Outcome(vfs, adapters, <<>>, "FileNotFoundError"), "subprocess.run", [hist EXCEPT !.pc = "raised", !.exit_code = 127])

\* sync_from_host(shell, fs_root).
ReadBack ==
  /\ hist.pc = "exited"
  /\ LET Synced(s) == Step(s, "sync_from_host", IF s.err = NoErr THEN [hist EXCEPT !.pc = "synced"] ELSE [hist EXCEPT !.pc = "raised", !.exit_code = 1])
     IN Synced(SyncFromHost(vfs, adapters, hist.tmp))

\* The with-block is left, by its end or by an exception passing through.
LeaveScope ==
  /\ hist.pc \in {"synced", "raised"} \/ (hist.pc = "materialized" /\ hist.caller = "materialize")
  /\ Step(Outcome(vfs, adapters, <<>>, NoErr), "return", [Cleanup(hist) EXCEPT !.pc = "idle"])

NextHost ==
  \/ EnterScope(PublicShell, {"host", "materialize"})
  \/ ExportRaises({"host", "materialize"})
  \/ ProcessExits(HostPrograms, ExitCodes)
  \/ ProcessNotStarted
  \/ ReadBack
  \/ LeaveScope
  \/ hist.pc = "idle" /\ DoSetPolicy({<<"d", "a">>}, {Unreadable})

SpecHost == InitHost /\ [][NextHost]_vars

\* Python leaves a with-block whose body has ended or raised: the leaving is
\* not put off for ever.  Nothing is assumed about the host process.
SpecHostFair == SpecHost /\ WF_vars(LeaveScope)

\* ------------------------------------------- SpecListing: ls, find and tree
\* A shell whose view lets the classification "public" through, on a tree
\* with the directories /d and /d/m; /d/a is written, nodes are classified
\* "secret", and the shell changes directory and lists.
PublicOnly == SandboxShell(VisibilityView(Given({"public"}), Unset, Unset), Unset, FALSE)

Secret == [DefaultPolicy EXCEPT !.classification = "secret"]

Listed == {<<>>, <<<<>>>>, <<<<"d">>>>, <<<<"d", "m">>>>}

Listings == {<<<<Command(name, args, <<>>, <<>>, FALSE)>>>> : name \in {"ls", "tree", "find"}, args \in Listed}

ChangesOfDirectory == {<<<<Command("cd", <<path>>, <<>>, <<>>, FALSE)>>>> : path \in {<<>>, <<"d">>}}

InitListing ==
  /\ vfs = NestedTree
  /\ vfs2 = EmptyVFS
  /\ adapters = InitialAdapters
  /\ events = <<>>
  /\ last = NoCall
  /\ hist = NoResult

NextListing ==
  \/ DoExec(PublicOnly, Listings, {NoRun})
  \/ DoExec(PublicOnly, ChangesOfDirectory, {NoRun})
  \/ DoSetPolicy({<<"d">>, <<"d", "m">>, <<"d", "a">>}, {Secret})
  \/ DoWriteFile({<<"d", "a">>}, Local, {FALSE}, {NoNode})

SpecListing == InitListing /\ [][NextListing]_vars

\* ---------------------------------- SpecPipeline: pipelines and redirection
\* A shell with the default view, no allow-list and no host fallback, on a
\* tree that holds /d/a; the inputs are one pipeline of one or two commands,
\* or two lines, with redirections from and to files.
Plain == SandboxShell(VisibilityView(Unset, Unset, Unset), Unset, FALSE)

FileA == <<"d", "a">>

FileB == <<"d", "b">>

Missing == <<"b">>

Commands ==
  { Command("cat", <<FileA>>, <<>>, <<>>, FALSE),
    Command("cat", <<Missing>>, <<>>, <<>>, FALSE),
    Command("cat", <<Missing>>, <<>>, <<FileB>>, FALSE),
    Command("cat", <<>>, <<>>, <<FileB>>, TRUE),
    Command("cat", <<>>, <<Missing>>, <<>>, FALSE),
    Command("echo", <<<<"h">>>>, <<>>, <<FileB>>, FALSE),
    Command("rm", <<FileA>>, <<>>, <<>>, FALSE) }

\* What follows a first command, as a second segment or on a second line.
Followers == {Command("cat", <<FileA>>, <<>>, <<>>, FALSE), Command("cat", <<>>, <<>>, <<FileB>>, TRUE)}

Pipelines == {<<<<c>>>> : c \in Commands} \cup {<<<<c, d>>>> : c \in Commands, d \in Followers}

TwoLines == {<<<<c>>, <<d>>>> : c \in Commands, d \in Followers}

InitPipeline ==
  /\ vfs = OneFile
  /\ vfs2 = EmptyVFS
  /\ adapters = InitialAdapters
  /\ events = <<>>
  /\ last = NoCall
  /\ hist = NoResult

NextPipeline ==
  \/ DoExec(Plain, Pipelines, {NoRun})
  \/ DoExec(Plain, TwoLines, {NoRun})

SpecPipeline == InitPipeline /\ [][NextPipeline]_vars

\* -------------------------------------------- SpecAllow: the allow-list
\* A shell with the allow-list {"ls", "cat"} and host fallback, on a tree
\* that holds /d/a.  "rm" is a builtin outside the list and "git" is no
\* builtin at all; a host process, when one is started, edits the exported
\* tree once.
AllowList == {"ls", "cat"}

Agent == SandboxShell(VisibilityView(Unset, Unset, Unset), Given(AllowList), TRUE)

Requests ==
  { <<<<Command("rm", <<FileA>>, <<>>, <<>>, FALSE)>>>>,
    <<<<Command("cat", <<FileA>>, <<>>, <<>>, FALSE)>>>>,
    <<<<Command("ls", <<>>, <<>>, <<>>, FALSE)>>>>,
    <<<<Command("git", <<>>, <<>>, <<>>, FALSE)>>>> }

Runs == {NoRun} \cup {[started |-> TRUE, edits |-> <<e>>, exit_code |-> 0] : e \in HostEdits}

InitAllow ==
  /\ vfs = OneFile
  /\ vfs2 = EmptyVFS
  /\ adapters = InitialAdapters
  /\ events = <<>>
  /\ last = NoCall
  /\ hist = NoResult

NextAllow ==
  \/ DoExec(Agent, Requests, Runs)
  \/ DoWriteFile({FileA}, Local, {FALSE}, {NoNode})

SpecAllow == InitAllow /\ [][NextAllow]_vars

\* ------------------------------- SpecSyntax: command lines as the parser sees them
\* One shell without an output budget and one with max_output_bytes = 5 run
\* one-line inputs, given as tokens, on a tree that holds /d/a; hist keeps
\* the shell's environment (self.env) from one call to the next.
Unlimited == SandboxShell(VisibilityView(Unset, Unset, Unset), Unset, FALSE)

Budgeted == [Unlimited EXCEPT !.max_output_bytes = Given(MaxOutputBytes)]

Echo == <<"echo">>

Word == <<"h">>

FooIsWord == <<"FOO", "=", "h">>

FooIsOther == <<"FOO", "=", "x">>

FooReference == <<"$FOO">>

\* echo h; echo h h h; cat /d/a; echo h > /d/b; FOO=h; FOO=h echo $FOO;
\* FOO=x echo $FOO; echo $FOO; BAR=$FOO
WellFormedLines ==
  { <<Echo, Word>>,
    <<Echo, Word, Word, Word>>,
    <<<<"cat">>, FileA>>,
    <<Echo, Word, Greater, FileB>>,
    <<FooIsWord>>,
    <<FooIsWord, Echo, FooReference>>,
    <<FooIsOther, Echo, FooReference>>,
    <<Echo, FooReference>>,
    <<<<"BAR", "=", "$FOO">>>> }

\* echo h >; echo h |; | echo h; > /d/b; FOO=h > /d/b; FOO=h | echo h;
\* echo h > /d/b | FOO=h; rm /d/a | FOO=h
MalformedLines ==
  { <<Echo, Word, Greater>>,
    <<Echo, Word, Pipe>>,
    <<Pipe, Echo, Word>>,
    <<Greater, FileB>>,
    <<FooIsWord, Greater, FileB>>,
    <<FooIsWord, Pipe, Echo, Word>>,
    <<Echo, Word, Greater, FileB, Pipe, FooIsWord>>,
    <<<<"rm">>, FileA, Pipe, FooIsWord>> }

NoLine == [line |-> <<>>, budgeted |-> FALSE, env |-> <<>>, stdout |-> <<>>, stderr |-> "", exit_code |-> 0, trace |-> <<>>, wrote |-> <<>>]

\* shell.exec(line) for a one-line input.
DoExecLine(shells, lines) ==
  \E sh \in shells, line \in lines :
    LET Done(r) == ApplyOn(1, Outcome(r.fs, r.ad, r.ev, r.raised), Call("exec", <<>>, <<>>, <<>>, FALSE, NoNode, FALSE), [line |-> line, budgeted |-> sh.max_output_bytes.given, env |-> r.env, stdout |-> r.stdout, stderr |-> r.stderr, exit_code |-> r.exit_code, trace |-> r.trace, wrote |-> r.wrote])
    IN Done(ExecCommandLine(sh, [fs |-> vfs, ad |-> adapters, ev |-> <<>>, env |-> hist.env, trace |-> <<>>, wrote |-> <<>>], line, NoRun))

InitSyntax ==
  /\ vfs = OneFile
  /\ vfs2 = EmptyVFS
  /\ adapters = InitialAdapters
  /\ events = <<>>
  /\ last = NoCall
  /\ hist = NoLine

NextSyntax ==
  \/ DoExecLine({Unlimited, Budgeted}, WellFormedLines)
  \/ DoExecLine({Unlimited, Budgeted}, MalformedLines)

SpecSyntax == InitSyntax /\ [][NextSyntax]_vars

\* --------------------------------------------- SpecIndex: the full-text index
\* A facade with the index enabled and the directory /d: files are written
\* and appended to, moved, copied and removed.
InitIndex ==
  /\ vfs = Tree
  /\ vfs2 = EmptyVFS
  /\ adapters = InitialAdapters
  /\ events = <<>>
  /\ last = NoCall
  /\ hist = EmptyMap

NextIndex ==
  \/ DoWriteFile({<<"a">>}, Local, BOOLEAN, {NoNode})
  \/ DoMove({<<"a">>}, {<<"b">>, <<"d">>})
  \/ DoCopy({<<"a">>}, {<<"d", "a">>})
  \/ DoRemove({<<"a">>, <<"b">>, <<"d">>}, {TRUE})

SpecIndex == InitIndex /\ [][NextIndex]_vars

\* ------------------------------------------------- SpecHooks: the path hook
\* A facade with one path hook, registered on /d: files inside and outside
\* /d are written (with and without an expected version), touched and
\* removed.
HookPrefix == <<"d">>

Hooked == RegisterPathHook(EmptyVFS, HookPrefix)

InitHooks ==
  /\ vfs = Hooked
  /\ vfs2 = EmptyVFS
  /\ adapters = InitialAdapters
  /\ events = <<>>
  /\ last = NoCall
  /\ hist = EmptyMap

NextHooks ==
  \/ DoWriteFile({<<"d", "a">>, <<"a">>}, Local, BOOLEAN, ExpectedVersions)
  \/ DoTouch({<<"d", "a">>})
  \/ DoRemove({<<"d", "a">>, <<"d">>, <<"a">>}, BOOLEAN)

SpecHooks == InitHooks /\ [][NextHooks]_vars

\* ------------------------------------------------------ snapshot and restore
\* NodeSnapshot: the model's nodes carry no metadata and no timestamps.
NodeSnapshot(fs, n) == [path |-> NodePath(fs, n), is_dir |-> IsDir(fs, n), policy |-> ClonePolicy(fs.nodes[n].policy), version |-> fs.nodes[n].version, content |-> IF IsFile(fs, n) THEN fs.nodes[n].content ELSE None]

\* VirtualFileSystem.snapshot: the dict of node snapshots as the sequence of
\* its items, in the order walk("/") inserted them.
Snapshot(fs) == [nodes |-> [i \in 1..Len(Walk(fs, Root)) |-> NodeSnapshot(fs, Walk(fs, Root)[i])], cwd |-> NodePath(fs, fs.cwd), storage_mounts |-> fs.mounts]

NoSnapshot == [nodes |-> <<>>, cwd |-> <<>>, storage_mounts |-> EmptyMap]

\* sorted(snapshot.nodes.items(), key=number of parts): a stable sort by depth.
RECURSIVE SortedByDepth(_, _)
SortedByDepth(items, depth) ==
  IF depth > MaxNodes THEN <<>>
  ELSE SelectSeq(items, LAMBDA item : Len(item.path) = depth) \o SortedByDepth(items, depth + 1)

\* The attributes restore assigns to the node it made or found.
Restored(fs, n, node_state) == [fs EXCEPT !.nodes = [@ EXCEPT ![n] = [@ EXCEPT !.policy = ClonePolicy(node_state.policy), !.version = node_state.version, !.content = IF node_state.is_dir THEN @ ELSE node_state.content]]]

\* The loop of restore over the ordered items, from the i-th on: [fs, err, node].
RECURSIVE RestoreNodes(_, _, _)
RestoreNodes(o, ordered, i) ==
  IF o.err # NoErr \/ i > Len(ordered) THEN o
  ELSE LET node_state == ordered[i]
           Made(m) == IF m.err # NoErr THEN m ELSE [fs |-> Restored(m.fs, m.node, node_state), err |-> NoErr, node |-> m.node]
       IN IF node_state.path = <<>> THEN RestoreNodes([fs |-> Restored(o.fs, Root, node_state), err |-> NoErr, node |-> Root], ordered, i + 1)
          ELSE IF node_state.is_dir THEN RestoreNodes(Made(Mkdir(o.fs, node_state.path, TRUE, TRUE)), ordered, i + 1)
          ELSE RestoreNodes(Made(EnsureFile(o.fs, node_state.path, TRUE)), ordered, i + 1)

\* VirtualFileSystem.restore; a raise leaves the facade with the new root as
\* far as it was rebuilt.
Restore(fs, ad, snapshot) ==
  LET fresh == [fs EXCEPT !.nodes = EmptyVFS.nodes, !.cwd = Root, !.mounts = snapshot.storage_mounts]
      Rebuilt(o) ==
        IF o.err # NoErr THEN Outcome(o.fs, ad, <<>>, o.err)
        ELSE IF ResolveDir(o.fs, snapshot.cwd, FALSE).err # NoErr THEN Outcome(o.fs, ad, <<>>, ResolveDir(o.fs, snapshot.cwd, FALSE).err)
        ELSE Outcome(RebuildIndex([o.fs EXCEPT !.cwd = ResolveDir(o.fs, snapshot.cwd, FALSE).node]), ad, <<>>, NoErr)
  IN Rebuilt(RestoreNodes([fs |-> fresh, err |-> NoErr, node |-> Root], SortedByDepth(snapshot.nodes, 0), 1))

\* ---------------------------------------- SpecSnapshot: snapshot and restore
\* A facade whose tree is built from files and directories, whose nodes are
\* given policies and whose cwd moves; a snapshot is taken, the tree is
\* changed further and the snapshot is restored.  hist holds the snapshot.
ReadOnlyPolicy == [DefaultPolicy EXCEPT !.writable = FALSE]

DoMkdir(paths, flags) == \E path \in paths, parents \in flags : Apply(Outcome(Mkdir(vfs, path, parents, TRUE).fs, adapters, <<>>, Mkdir(vfs, path, parents, TRUE).err), Call("mkdir", path, <<>>, <<>>, FALSE, NoNode, parents))

DoCd(paths) == \E path \in paths : Apply(Outcome(Cd(vfs, path).fs, adapters, <<>>, Cd(vfs, path).err), Call("cd", path, <<>>, <<>>, FALSE, NoNode, FALSE))

DoSnapshot ==
  /\ hist = NoSnapshot
  /\ hist' = Snapshot(vfs)
  /\ last' = Call("snapshot", <<>>, <<>>, <<>>, FALSE, NoNode, FALSE)
  /\ events' = <<>>
  /\ UNCHANGED <<vfs, vfs2, adapters>>

DoRestore ==
  /\ hist # NoSnapshot
  /\ ApplyOn(1, Restore(vfs, adapters, hist), Call("restore", <<>>, <<>>, <<>>, FALSE, NoNode, FALSE), NoSnapshot)

InitSnapshot ==
  /\ vfs = EmptyVFS
  /\ vfs2 = EmptyVFS
  /\ adapters = InitialAdapters
  /\ events = <<>>
  /\ last = NoCall
  /\ hist = NoSnapshot

NextSnapshot ==
  \/ DoWriteFile({<<"d", "a">>}, Local, {FALSE}, {NoNode})
  \/ DoMkdir({<<"d", "m">>}, {TRUE})
  \/ DoSetPolicy({<<"d">>}, {ReadOnlyPolicy})
  \/ DoRemove({<<"d", "a">>}, {TRUE})
  \/ DoCd({<<"d">>})
  \/ DoSnapshot
  \/ DoRestore

SpecSnapshot == InitSnapshot /\ [][NextSnapshot]_vars

\* ---------------------------------------------------- the shell: grep and rg
\* str.splitlines() of a text whose only line break is "\n".
RECURSIVE SplitLines(_)
SplitLines(text) ==
  IF text = <<>> THEN <<>>
  ELSE IF \A i \in 1..Len(text) : text[i] # "\n" THEN <<text>>
  ELSE LET k == CHOOSE i \in 1..Len(text) : text[i] = "\n" /\ \A j \in 1..(i - 1) : text[j] # "\n"
       IN <<SubSeq(text, 1, k - 1)>> \o SplitLines(SubSeq(text, k + 1, Len(text)))

\* str.lower() over the model's letters.
Lower(text) == [i \in 1..Len(text) |-> IF text[i] = "H" THEN "h" ELSE text[i]]

\* `pattern in line`.
Contains(pattern, line) == \E i \in 0..(Len(line) - Len(pattern)) : SubSeq(line, i + 1, i + Len(pattern)) = pattern

\* The test of one line in _search and _search_text; the patterns of the
\* model hold no regular-expression operators, so a regex search is a
\* substring search.
Matched(pattern, line, regex, ignore_case) ==
  IF regex THEN (IF ignore_case THEN Contains(Lower(pattern), Lower(line)) ELSE Contains(pattern, line))
  ELSE IF ignore_case THEN pattern # <<>> /\ Contains(Lower(pattern), Lower(line))
  ELSE Contains(pattern, line)

\* The 1-based numbers of the lines of a text that match.
MatchedNumbers(pattern, text, regex, ignore_case) == SelectSeq([i \in 1..Len(SplitLines(text)) |-> i], LAMBDA idx : Matched(pattern, SplitLines(text)[idx], regex, ignore_case))

\* SandboxShell._search_text: an output line is the tuple of the fields its
\* colons separate.
SearchText(pattern, text, regex, ignore_case, show_numbers) ==
  LET Found(numbers) == [k \in 1..Len(numbers) |-> IF show_numbers THEN <<numbers[k], SplitLines(text)[numbers[k]]>> ELSE <<SplitLines(text)[numbers[k]]>>]
  IN Found(MatchedNumbers(pattern, text, regex, ignore_case))

\* The lines _search appends for one file.
SearchFile(fs, n, pattern, regex, ignore_case, show_numbers) ==
  LET Found(numbers) == [k \in 1..Len(numbers) |-> IF show_numbers THEN <<NodePath(fs, n), numbers[k], SplitLines(fs.nodes[n].content)[numbers[k]]>> ELSE <<NodePath(fs, n), SplitLines(fs.nodes[n].content)[numbers[k]]>>]
  IN Found(MatchedNumbers(pattern, fs.nodes[n].content, regex, ignore_case))

\* VirtualFileSystem.iter_files without skip_prefixes: [err, files].
RECURSIVE WalkDir(_, _, _, _)
WalkDir(fs, dir, i, recursive) ==
  IF i > Len(NameSeq) THEN <<>>
  ELSE LET child == GetChild(fs, dir, NameSeq[i]) IN
       (IF child = NoNode THEN <<>>
        ELSE IF IsFile(fs, child) THEN <<child>>
        ELSE IF recursive THEN WalkDir(fs, child, 1, recursive) ELSE <<>>) \o WalkDir(fs, dir, i + 1, recursive)

IterFiles(fs, path, recursive) ==
  LET start == ResolveNode(fs, path) IN
  IF start.err # NoErr THEN [err |-> start.err, files |-> <<>>]
  ELSE IF EnsureReadAllowed(fs, start.node) # NoErr THEN [err |-> NotReadable, files |-> <<>>]
  ELSE IF IsFile(fs, start.node) THEN [err |-> NoErr, files |-> <<start.node>>]
  ELSE [err |-> NoErr, files |-> WalkDir(fs, start.node, 1, recursive)]

\* SandboxShell._search on one target: [err, lines].
RECURSIVE SearchFiles(_, _, _, _, _, _, _, _)
SearchFiles(sh, fs, files, i, pattern, regex, ignore_case, show_numbers) ==
  IF i > Len(files) THEN <<>>
  ELSE (IF ~AllowsNode(sh.view, fs, files[i]) THEN <<>> ELSE SearchFile(fs, files[i], pattern, regex, ignore_case, show_numbers))
       \o SearchFiles(sh, fs, files, i + 1, pattern, regex, ignore_case, show_numbers)

Search(sh, fs, target, pattern, recursive, regex, ignore_case, show_numbers) ==
  LET Walked(it) == IF it.err # NoErr THEN [err |-> it.err, lines |-> <<>>] ELSE [err |-> NoErr, lines |-> SearchFiles(sh, fs, it.files, 1, pattern, regex, ignore_case, show_numbers)]
  IN Walked(IterFiles(fs, target, recursive))

\* The options of grep.
RecursiveFlags == {<<"-r">>, <<"-R">>, <<"--recursive">>}

IgnoreCaseFlags == {<<"-i">>, <<"--ignore-case">>}

LineNumberFlags == {<<"-n">>, <<"--line-number">>}

RegexFlags == {<<"-e">>, <<"--regex">>}

GrepFlags == RecursiveFlags \cup IgnoreCaseFlags \cup LineNumberFlags \cup RegexFlags

Given1(args, flags) == \E i \in 1..Len(args) : args[i] \in flags

\* The loop of _cmd_grep over its targets.
RECURSIVE GrepTargets(_, _, _, _, _, _, _, _)
GrepTargets(sh, o, args, paths, idx, pattern, stdin, output) ==
  IF idx > Len(paths) THEN Returned(o, output, "", 0)
  ELSE IF paths[idx] = Dash THEN GrepTargets(sh, o, args, paths, idx + 1, pattern, stdin, output \o SearchText(pattern, stdin, Given1(args, RegexFlags), Given1(args, IgnoreCaseFlags), Given1(args, LineNumberFlags)))
  ELSE IF EnsureVisiblePath(sh, o.fs, paths[idx]) # NoErr THEN Raised(o, EnsureVisiblePath(sh, o.fs, paths[idx]))
  ELSE LET Searched(found) == IF found.err # NoErr THEN Raised(o, found.err) ELSE GrepTargets(sh, o, args, paths, idx + 1, pattern, stdin, output \o found.lines)
       IN Searched(Search(sh, o.fs, paths[idx], pattern, Given1(args, RecursiveFlags), Given1(args, RegexFlags), Given1(args, IgnoreCaseFlags), Given1(args, LineNumberFlags)))

\* SandboxShell._cmd_grep, called with a context: the first argument that is
\* no option is the pattern, the others are the paths.
CmdGrep(sh, o, args, stdin) ==
  LET words == SelectSeq(args, LAMBDA token : token \notin GrepFlags) IN
  IF args = <<>> THEN Returned(o, <<>>, "grep expects a pattern", 2)
  ELSE IF words = <<>> THEN Returned(o, <<>>, "Missing pattern", 2)
  ELSE IF Tail(words) = <<>> THEN Returned(o, SearchText(words[1], stdin, Given1(args, RegexFlags), Given1(args, IgnoreCaseFlags), Given1(args, LineNumberFlags)), "", 0)
  ELSE GrepTargets(sh, o, args, Tail(words), 1, words[1], stdin, <<>>)

\* SandboxShell._cmd_rg.
CmdRg(sh, o, args, stdin) == CmdGrep(sh, o, <<<<"-r">>>> \o args, stdin)

\* ----------------------------------------------------- SpecSearch: grep, rg
\* A shell over the directory /d: the files /d/a and /d/m/a are written with
\* one-line and two-line texts, and grep and rg search them.  hist is the
\* command and its result.
Texts == {<<"h">>, <<"\n", "h">>, <<"x">>}

Searches == {<<<<"h">>, <<"d">>>>, <<<<"-n">>, <<"h">>, <<"d">>>>, <<<<"h">>, <<"d", "a">>>>, <<<<"h">>>>, <<>>}

NoSearch == [name |-> "", args |-> <<>>, stdout |-> <<>>, stderr |-> "", exit_code |-> 0]

\* exec of a line that holds one grep or rg command: _run_command turns an
\* exception of the handler into exit code 1.
DoSearch(sh, names, searches) ==
  \E name \in names, args \in searches :
    LET Handled(result) == IF result.raised # NoErr THEN [name |-> name, args |-> args, stdout |-> <<>>, stderr |-> result.raised, exit_code |-> 1]
                           ELSE [name |-> name, args |-> args, stdout |-> result.stdout, stderr |-> result.stderr, exit_code |-> result.exit_code]
    IN /\ hist' = Handled(IF name = "rg" THEN CmdRg(sh, Outcome(vfs, adapters, <<>>, NoErr), args, <<>>) ELSE CmdGrep(sh, Outcome(vfs, adapters, <<>>, NoErr), args, <<>>))
       /\ last' = Call(name, <<>>, <<>>, <<>>, FALSE, NoNode, FALSE)
       /\ events' = <<>>
       /\ UNCHANGED <<vfs, vfs2, adapters>>

InitSearch ==
  /\ vfs = Tree
  /\ vfs2 = EmptyVFS
  /\ adapters = InitialAdapters
  /\ events = <<>>
  /\ last = NoCall
  /\ hist = NoSearch

NextSearch ==
  \/ DoWriteFile({<<"d", "a">>, <<"d", "m", "a">>}, Texts, {FALSE}, {NoNode})
  \/ DoSearch(Plain, {"rg", "grep"}, Searches)

SpecSearch == InitSearch /\ [][NextSearch]_vars

\* ------------------------------------------ SpecGuard: read-only directories
\* A facade with the directory /d, which is made read-only and writable
\* again: files are written and touched in it and directories are made in
\* it, with and without parents (the call records parents as `recursive`).
InitGuard ==
  /\ vfs = Tree
  /\ vfs2 = EmptyVFS
  /\ adapters = InitialAdapters
  /\ events = <<>>
  /\ last = NoCall
  /\ hist = EmptyMap

NextGuard ==
  \/ DoSetPolicy({<<"d">>}, {ReadOnlyPolicy, DefaultPolicy})
  \/ DoWriteFile({<<"d", "a">>}, Local, {FALSE}, {NoNode})
  \/ DoTouch({<<"d", "b">>})
  \/ DoMkdir({<<"d", "m">>, <<"d", "m", "b">>}, BOOLEAN)
  \/ DoRemove({<<"d", "a">>, <<"d", "m">>}, {TRUE})

SpecGuard == InitGuard /\ [][NextGuard]_vars

\* ------------------------------------- SpecPurge: removing protected trees
\* The mounted tree with /m/a and /m/d/a: /m/d/b is written, files are made
\* read-only or append-only, and directories are removed recursively.
InitPurge ==
  /\ vfs = MountedNested
  /\ vfs2 = EmptyVFS
  /\ adapters = NestedAdapters
  /\ events = <<>>
  /\ last = NoCall
  /\ hist = EmptyMap

NextPurge ==
  \/ DoWriteFile({<<"m", "d", "b">>}, Local, {FALSE}, {NoNode})
  \/ DoSetPolicy({<<"m", "d", "a">>, <<"m", "d", "b">>}, {ReadOnlyPolicy, AppendOnlyPolicy})
  \/ DoRemove({<<"m", "d">>, <<"m">>}, {TRUE})

SpecPurge == InitPurge /\ [][NextPurge]_vars

\* ------------------------------------------------------------- vfs.search
\* SearchResult(path, line_no, line_text).
SearchResult(path, line_no, line_text) == [path |-> path, line_no |-> line_no, line_text |-> line_text]

\* The results one text gives: FullTextIndex.search, lines 54-66, and the
\* loop of VirtualFileSystem.search over the lines of a file.
ResultsOf(path, text, pattern) ==
  LET Found(numbers) == [k \in 1..Len(numbers) |-> SearchResult(path, numbers[k], SplitLines(text)[numbers[k]])]
  IN Found(MatchedNumbers(pattern, text, FALSE, FALSE))

\* FullTextIndex.search over the indexed paths under the prefix.
RECURSIVE IndexSearch(_, _, _, _, _)
IndexSearch(index, paths, i, pattern, path_prefix) ==
  IF i > Len(paths) THEN <<>>
  ELSE (IF path_prefix # <<>> /\ ~IsPrefix(path_prefix, paths[i]) THEN <<>> ELSE ResultsOf(paths[i], index[paths[i]], pattern))
       \o IndexSearch(index, paths, i + 1, pattern, path_prefix)

\* The loop of VirtualFileSystem.search over the files it walks.
RECURSIVE WalkSearch(_, _, _, _, _)
WalkSearch(fs, view, files, i, pattern) ==
  IF i > Len(files) THEN <<>>
  ELSE (IF ~AllowsNode(view, fs, files[i]) THEN <<>> ELSE ResultsOf(NodePath(fs, files[i]), fs.nodes[files[i]].content, pattern))
       \o WalkSearch(fs, view, files, i + 1, pattern)

\* VirtualFileSystem.search with a view and no search-view prefix: [err,
\* results].  iter_files is a generator, so what it raises is raised by the
\* loop, outside the try.
VfsSearch(fs, pattern, path_prefix, view) ==
  IF fs.indexed
  THEN [err |-> NoErr, results |-> SelectSeq(IndexSearch(fs.index, ListKeys(DOMAIN fs.index), 1, pattern, path_prefix), LAMBDA result : ResolveNode(fs, result.path).err = NoErr /\ AllowsNode(view, fs, ResolveNode(fs, result.path).node))]
  ELSE LET Walked(it) == IF it.err # NoErr THEN [err |-> it.err, results |-> <<>>] ELSE [err |-> NoErr, results |-> WalkSearch(fs, view, it.files, 1, pattern)]
       IN Walked(IterFiles(fs, path_prefix, TRUE))

\* ------------------------------------------ SpecSecret: unreadable content
\* Two facades, one with the full-text index and one without, each with the
\* directory /d: the file /d/a is written, made unreadable and readable
\* again, and read through read_file, vfs.search, cat, grep and rg from /, /d
\* and /d/a.  hist holds the lines of text the call gave out.
UnreadablePolicy == [DefaultPolicy EXCEPT !.readable = FALSE]

Readers == {"read_file", "search", "cat", "grep", "rg"}

NoTexts == [texts |-> <<>>]

\* The text fields of the lines grep and rg print.
LastFields(lines) == [i \in 1..Len(lines) |-> lines[i][Len(lines[i])]]

Disclosed(sh, fs, ad, name, target) ==
  CASE name = "read_file" -> (IF ReadFile(fs, target).err # NoErr THEN <<>> ELSE SplitLines(ReadFile(fs, target).content))
    [] name = "search" -> [i \in 1..Len(VfsSearch(fs, <<"h">>, target, sh.view).results) |-> VfsSearch(fs, <<"h">>, target, sh.view).results[i].line_text]
    [] name = "cat" -> SplitLines(CmdCat(sh, Outcome(fs, ad, <<>>, NoErr), <<target>>, <<>>).stdout)
    [] name = "grep" -> LastFields(CmdGrep(sh, Outcome(fs, ad, <<>>, NoErr), <<<<"-r">>, <<"h">>, target>>, <<>>).stdout)
    [] name = "rg" -> LastFields(CmdRg(sh, Outcome(fs, ad, <<>>, NoErr), <<<<"h">>, target>>, <<>>).stdout)

DoRead(sh, names, targets) ==
  \E name \in names, target \in targets :
    /\ hist' = [texts |-> Disclosed(sh, vfs, adapters, name, target)]
    /\ last' = Call(name, target, <<>>, <<>>, FALSE, NoNode, FALSE)
    /\ events' = <<>>
    /\ UNCHANGED <<vfs, vfs2, adapters>>

InitSecret ==
  /\ vfs \in {Tree, Collect(Mkdir(EmptyVFS, <<"d">>, FALSE, FALSE).fs)}
  /\ vfs2 = EmptyVFS
  /\ adapters = InitialAdapters
  /\ events = <<>>
  /\ last = NoCall
  /\ hist = NoTexts

NextSecret ==
  \/ DoWriteFile({<<"d", "a">>}, {<<"h">>, <<"x", "\n", "h">>}, {FALSE}, {NoNode})
  \/ DoSetPolicy({<<"d", "a">>}, {UnreadablePolicy, DefaultPolicy})
  \/ DoRead(Plain, Readers, {<<>>, <<"d">>, <<"d", "a">>})

SpecSecret == InitSecret /\ [][NextSecret]_vars

\* ------------------------------------- SpecHidden: beneath a hidden directory
\* The tree /d, /d/m seen through a view of the classification "public": /d
\* is classified "secret" while its descendants stay public, /d/a is written,
\* and cat, ls, find and tree are given the full paths of the descendants.
Probes == {<<<<Command("cat", <<<<"d", "a">>>>, <<>>, <<>>, FALSE)>>>>} \cup {<<<<Command(name, <<path>>, <<>>, <<>>, FALSE)>>>> : name \in {"ls", "find", "tree"}, path \in {<<"d", "a">>, <<"d", "m">>}}

InitHidden ==
  /\ vfs = NestedTree
  /\ vfs2 = EmptyVFS
  /\ adapters = InitialAdapters
  /\ events = <<>>
  /\ last = NoCall
  /\ hist = NoResult

NextHidden ==
  \/ DoExec(PublicOnly, Probes, {NoRun})
  \/ DoSetPolicy({<<"d">>}, {Secret, DefaultPolicy})
  \/ DoWriteFile({<<"d", "a">>}, Local, BOOLEAN, {NoNode})

SpecHidden == InitHidden /\ [][NextHidden]_vars

\* ------------------------------------------- SpecCwd: the working directory
\* The mounted tree with /m/a and /m/d/a: the working directory changes, and
\* directories are removed, moved and reloaded from the adapter.
InitCwd ==
  /\ vfs = MountedNested
  /\ vfs2 = EmptyVFS
  /\ adapters = NestedAdapters
  /\ events = <<>>
  /\ last = NoCall
  /\ hist = EmptyMap

NextCwd ==
  \/ DoCd({<<>>, <<"m">>, <<"m", "d">>, <<"b">>})
  \/ DoRemove({<<"m", "d">>, <<"m", "d", "a">>, <<"b">>}, {TRUE})
  \/ DoMove({<<"m", "d">>, <<"b">>}, {<<"b">>, <<"m", "d">>})
  \/ DoSyncStorage(MountPoint)

SpecCwd == InitCwd /\ [][NextCwd]_vars

\* ------------------------------------------------ SpecCopy: clones and sources
\* /d/a is written; /d is copied recursively to /b, /d/a is copied to /b and
\* onto itself; then source and copy are written and given a policy.
CopySources == {<<"d">>, <<"d", "a">>}

CopyTargets == {<<"b">>, <<"d", "a">>}

InitCopy ==
  /\ vfs = Tree
  /\ vfs2 = EmptyVFS
  /\ adapters = InitialAdapters
  /\ events = <<>>
  /\ last = NoCall
  /\ hist = EmptyMap

NextCopy ==
  \/ DoWriteFile({<<"d", "a">>}, Local, {FALSE}, {NoNode})
  \/ DoWriteFile({<<"b", "a">>}, Foreign, {FALSE}, {NoNode})
  \/ DoCopy(CopySources, CopyTargets)
  \/ DoSetPolicy({<<"d", "a">>}, {AppendOnlyPolicy})

SpecCopy == InitCopy /\ [][NextCopy]_vars

\* ------------------------------------------- SpecNested: a mount in a mount
\* The adapter "A" serves /m and lists "a" and "d/a"; the adapter "B", empty,
\* is then mounted at /m/d.  Files under each mount are written and removed,
\* /m/d is removed recursively and the outer mount is synchronised.
InnerMount == <<"m", "d">>

MountedTwice == Collect(MountStorage(MountedNested, NestedAdapters, InnerMount, "B", {}).fs)

InitNested ==
  /\ vfs = MountedTwice
  /\ vfs2 = EmptyVFS
  /\ adapters = NestedAdapters
  /\ events = <<>>
  /\ last = NoCall
  /\ hist = EmptyMap

NextNested ==
  \/ DoWriteFile({<<"m", "d", "a">>, <<"m", "a">>}, Local, {FALSE}, {NoNode, 0})
  \/ DoRemove({<<"m", "d", "a">>, <<"m", "a">>}, {FALSE})
  \/ DoRemove({InnerMount}, {TRUE})
  \/ DoSyncStorage(MountPoint)

SpecNested == InitNested /\ [][NextNested]_vars

\* ------------------------------------------- SpecLazy: a directory provider
\* /d gets a loader (mount_directory) whose snapshot lists the files "a" and
\* "b".  The directory's loader state is kept beside the tree: loader (a
\* loader is set), _loaded, and calls, the number of loader invocations since
\* the loader was set or the directory was reset.
LazyDir == <<"d">>

LoaderSnapshot == ("a" :> <<"x">>) @@ ("b" :> <<"x">>)

NotLazy == [loader |-> FALSE, loaded |-> TRUE, calls |-> 0]

\* instantiate_provided_node for ProvidedNode.file(content=...).
InstantiateProvidedNode(name, content) == FileWrite(NewFile(name, NoNode), content, FALSE)

\* The loop of ensure_loaded over the snapshot, from the i-th name on.
RECURSIVE LoadSnapshot(_, _, _)
LoadSnapshot(l, dir, i) ==
  IF l.err # NoErr \/ i > Len(NameSeq) THEN l
  ELSE IF NameSeq[i] \notin DOMAIN LoaderSnapshot \/ GetChild(l.fs, dir, NameSeq[i]) # NoNode THEN LoadSnapshot(l, dir, i + 1)
  ELSE IF FreeId(l.fs) = NoNode THEN [fs |-> l.fs, err |-> OutOfIds]
  ELSE LoadSnapshot([fs |-> AddChild(l.fs, dir, FreeId(l.fs), InstantiateProvidedNode(NameSeq[i], LoaderSnapshot[NameSeq[i]])), err |-> NoErr], dir, i + 1)

\* Faulty variant: _loaded is never set.
EnsureLoadedAgain(fs, lz) ==
  IF ~lz.loader \/ ~IsDirAt(fs, LazyDir) THEN [fs |-> fs, lz |-> lz, err |-> NoErr]
  ELSE LET l == LoadSnapshot([fs |-> fs, err |-> NoErr], ResolveNode(fs, LazyDir).node, 1) IN [fs |-> l.fs, lz |-> [lz EXCEPT !.calls = @ + 1], err |-> l.err]

\* VirtualDirectory.ensure_loaded on /d: [fs, lz, err].
EnsureLoaded(fs, lz) ==
  IF lz.loaded \/ ~IsDirAt(fs, LazyDir) THEN [fs |-> fs, lz |-> lz, err |-> NoErr]
  ELSE IF ~lz.loader THEN [fs |-> fs, lz |-> [lz EXCEPT !.loaded = TRUE], err |-> NoErr]
  ELSE LET l == LoadSnapshot([fs |-> fs, err |-> NoErr], ResolveNode(fs, LazyDir).node, 1) IN [fs |-> l.fs, lz |-> [lz EXCEPT !.loaded = TRUE, !.calls = @ + 1], err |-> l.err]

\* A call that looks into /d: get_child and iter_children load it first.
Loading(e, o, call) == ApplyOn(1, IF e.err # NoErr THEN Outcome(e.fs, adapters, <<>>, e.err) ELSE o, call, e.lz)

\* VirtualFileSystem.mount_directory.
DoMountDirectory ==
  LET m == Mkdir(vfs, LazyDir, TRUE, TRUE) IN
  ApplyOn(1, Outcome(m.fs, adapters, <<>>, m.err), Call("mount_directory", LazyDir, <<>>, <<>>, FALSE, NoNode, FALSE), IF m.err = NoErr THEN [loader |-> TRUE, loaded |-> FALSE, calls |-> 0] ELSE hist)

\* VirtualFileSystem._reset_directory.
DoResetDirectory ==
  LET d == ResolveDir(vfs, LazyDir, FALSE) IN
  ApplyOn(1, Outcome(IF d.err = NoErr THEN ClearChildren(vfs, d.node) ELSE vfs, adapters, <<>>, d.err), Call("_reset_directory", LazyDir, <<>>, <<>>, FALSE, NoNode, FALSE), IF d.err = NoErr THEN [hist EXCEPT !.loaded = FALSE, !.calls = 0] ELSE hist)

DoLazyLs ==
  LET e == EnsureLoaded(vfs, hist) IN
  Loading(e, Outcome(e.fs, adapters, <<>>, Ls(e.fs, LazyDir, VisibilityView(Unset, Unset, Unset)).err), Call("ls", LazyDir, <<>>, <<>>, FALSE, NoNode, FALSE))

DoLazyWrite(names, payloads) ==
  \E n \in names, data \in payloads :
    LET e == EnsureLoaded(vfs, hist) IN
    Loading(e, WriteFile(e.fs, adapters, Append(LazyDir, n), data, FALSE, NoNode), Call("write_file", Append(LazyDir, n), <<>>, data, FALSE, NoNode, FALSE))

DoLazyRemove(names) ==
  \E n \in names :
    LET e == EnsureLoaded(vfs, hist) IN
    Loading(e, Remove(e.fs, adapters, <<>>, Append(LazyDir, n), FALSE), Call("remove", Append(LazyDir, n), <<>>, <<>>, FALSE, NoNode, FALSE))

InitLazy ==
  /\ vfs = Tree
  /\ vfs2 = EmptyVFS
  /\ adapters = InitialAdapters
  /\ events = <<>>
  /\ last = NoCall
  /\ hist = NotLazy

NextLazy ==
  \/ DoMountDirectory
  \/ DoResetDirectory
  \/ DoLazyLs
  \/ DoLazyWrite({"a", "m"}, Foreign)
  \/ DoLazyRemove({"a", "b"})

SpecLazy == InitLazy /\ [][NextLazy]_vars

\* ------------------------------------------ SpecOverlay: the search overlay
\* enable_search_view("/m") on a facade without index: /m is a directory
\* whose loader is _search_view_provider.  /a and /b are written, /a is removed;
\* the shell lists /m?q=Q and reads /m?q=Q/a and /m?q=Q/b.  Beside the tree
\* the state holds _search_view_context (context), the _loaded flag of /m
\* (loaded) and what the last command gave (stdout, raised).  A search path
\* is taken as _parse_search_path gives it: base, query, nav.
OverlayPrefix == <<"m">>

OverlayShell == Plain

NoContext == [active |-> FALSE, query |-> <<>>, view |-> OverlayShell.view]

SearchViewContext(query, view) == [active |-> TRUE, query |-> query, view |-> view]

ParsedSearchPath(base, query, nav) == [base |-> base, query |-> query, nav |-> nav]

\* str(path) as characters.
RECURSIVE PathText(_)
PathText(path) == IF path = <<>> THEN <<>> ELSE <<"/", path[1]>> \o PathText(Tail(path))

\* _build_search_tree, line 338: f"{path}:{match.line_no}:{match.line_text}".
ContentLine(result) == PathText(result.path) \o <<":", ToString(result.line_no), ":">> \o result.line_text

\* VirtualFileSystem._search_view_provider: the results the overlay is built
\* from; search leaves out what lies under the overlay itself.
SearchViewProvider(fs, context) ==
  IF ~context.active THEN [err |-> NoErr, results |-> <<>>]
  ELSE LET Outside(found) == [err |-> found.err, results |-> SelectSeq(found.results, LAMBDA result : ~IsPrefix(OverlayPrefix, result.path))]
       IN Outside(VfsSearch(fs, context.query, <<>>, context.view))

\* _build_search_tree and instantiate_provided_node over the results from the
\* i-th on: each file with matches appears under the overlay at its own path,
\* holding one line per match.
RECURSIVE BuildSearchTree(_, _, _)
BuildSearchTree(l, results, i) ==
  IF l.err # NoErr \/ i > Len(results) THEN l
  ELSE LET Filled(e) ==
             IF e.err # NoErr THEN [fs |-> e.fs, err |-> e.err]
             ELSE [fs |-> [e.fs EXCEPT !.nodes = [@ EXCEPT ![e.node] = [@ EXCEPT !.content = IF @ = <<>> THEN ContentLine(results[i]) ELSE @ \o Newline \o ContentLine(results[i])]]], err |-> NoErr]
       IN BuildSearchTree(Filled(EnsureFile(l.fs, OverlayPrefix \o results[i].path, TRUE)), results, i + 1)

\* VirtualDirectory.ensure_loaded on the overlay directory: [fs, context,
\* loaded, err].
LoadSearchView(s) ==
  IF s.loaded THEN s
  ELSE LET Loaded(l) == [s EXCEPT !.fs = l.fs, !.err = l.err, !.loaded = (l.err = NoErr)]
           Built(found) == IF found.err # NoErr THEN [fs |-> s.fs, err |-> found.err] ELSE BuildSearchTree([fs |-> s.fs, err |-> NoErr], found.results, 1)
       IN Loaded(Built(SearchViewProvider(s.fs, s.context)))

\* Faulty variant: the children stay and the directory stays loaded.
ResetDirectoryKept(s, path) == s

\* VirtualFileSystem._reset_directory.
ResetDirectory(s, path) ==
  LET d == ResolveDir(s.fs, path, FALSE) IN
  IF d.err # NoErr THEN [s EXCEPT !.err = d.err]
  ELSE [s EXCEPT !.fs = ClearChildren(s.fs, d.node), !.loaded = FALSE]

\* VirtualFileSystem.search_view_context: entering sets the context, leaving
\* (the finally clause) puts back the one found on entry.
EnterSearchView(s, query, view) == [s EXCEPT !.context = SearchViewContext(query, view)]

LeaveSearchView(s, previous) == [s EXCEPT !.context = previous]

\* SandboxShell._maybe_search_context up to the yield, with the first look
\* into the overlay (get_child, iter_children) that the body makes.
OpenSearchView(sh, s, parsed) == LET Opened(r) == IF r.err # NoErr THEN r ELSE LoadSearchView(r) IN Opened(ResetDirectory(EnterSearchView(s, parsed.query, sh.view), parsed.base))

\* SandboxShell._resolve_search_nav.
ResolveSearchNav(parsed) == parsed.base \o parsed.nav

\* _cmd_ls on one search path: the names listed.
OverlayLs(sh, s, parsed) ==
  LET ListedIn(r) ==
        IF r.err # NoErr THEN [r EXCEPT !.stdout = <<>>]
        ELSE IF EnsureVisiblePath(sh, r.fs, ResolveSearchNav(parsed)) # NoErr THEN [r EXCEPT !.stdout = <<>>, !.err = EnsureVisiblePath(sh, r.fs, ResolveSearchNav(parsed))]
        ELSE [r EXCEPT !.err = Ls(r.fs, ResolveSearchNav(parsed), sh.view).err, !.stdout = [i \in 1..Len(Ls(r.fs, ResolveSearchNav(parsed), sh.view).entries) |-> r.fs.nodes[Ls(r.fs, ResolveSearchNav(parsed), sh.view).entries[i]].name]]
  IN LeaveSearchView(ListedIn(OpenSearchView(sh, s, parsed)), s.context)

\* _cmd_cat on one search path.
OverlayCat(sh, s, parsed) ==
  LET Read(r) ==
        IF r.err # NoErr THEN [r EXCEPT !.stdout = <<>>]
        ELSE IF ReadFromPath(sh, r.fs, ResolveSearchNav(parsed)).err # NoErr THEN [r EXCEPT !.stdout = <<>>, !.err = ReadFromPath(sh, r.fs, ResolveSearchNav(parsed)).err]
        ELSE [r EXCEPT !.stdout = ReadFromPath(sh, r.fs, ResolveSearchNav(parsed)).content]
  IN LeaveSearchView(Read(OpenSearchView(sh, s, parsed)), s.context)

\* The bounds apply to the tree outside the overlay.
OutsideOverlay(fs) == IF IsDirAt(fs, OverlayPrefix) THEN ClearChildren(fs, ResolveNode(fs, OverlayPrefix).node) ELSE fs

OverlayStep(o, call, h) ==
  /\ o.err # OutOfIds
  /\ InBounds(Outcome(OutsideOverlay(o.fs), o.ad, o.ev, o.err))
  /\ vfs' = Collect(o.fs)
  /\ adapters' = o.ad
  /\ events' = o.ev
  /\ last' = [call EXCEPT !.err = o.err]
  /\ hist' = h
  /\ UNCHANGED vfs2

Ran(r) == [context |-> r.context, loaded |-> r.loaded, stdout |-> r.stdout]

Running == [fs |-> vfs, context |-> hist.context, loaded |-> hist.loaded, stdout |-> <<>>, err |-> NoErr]

OverlayQueries == {<<"x">>, <<"y">>}

DoOverlayLs ==
  \E q \in OverlayQueries :
    LET Done(r) == OverlayStep(Outcome(r.fs, adapters, <<>>, r.err), Call("ls", OverlayPrefix, <<>>, q, FALSE, NoNode, FALSE), Ran(r))
    IN Done(OverlayLs(OverlayShell, Running, ParsedSearchPath(OverlayPrefix, q, <<>>)))

DoOverlayCat ==
  \E q \in OverlayQueries, nav \in {<<"a">>, <<"b">>} :
    LET Done(r) == OverlayStep(Outcome(r.fs, adapters, <<>>, r.err), Call("cat", OverlayPrefix, nav, q, FALSE, NoNode, FALSE), Ran(r))
    IN Done(OverlayCat(OverlayShell, Running, ParsedSearchPath(OverlayPrefix, q, nav)))

DoOverlayWrite ==
  \E path \in {<<"a">>, <<"b">>}, data \in Local \cup Foreign :
    /\ path = <<"b">> => data \in Foreign
    /\ OverlayStep(WriteFile(vfs, adapters, path, data, FALSE, NoNode), Call("write_file", path, <<>>, data, FALSE, NoNode, FALSE), [hist EXCEPT !.stdout = <<>>])

DoOverlayRemove ==
  \E path \in {<<"a">>} :
    OverlayStep(Remove(vfs, adapters, <<>>, path, FALSE), Call("remove", path, <<>>, <<>>, FALSE, NoNode, FALSE), [hist EXCEPT !.stdout = <<>>])

InitOverlay ==
  /\ vfs = Collect(Mkdir(EmptyVFS, OverlayPrefix, TRUE, TRUE).fs)
  /\ vfs2 = EmptyVFS
  /\ adapters = InitialAdapters
  /\ events = <<>>
  /\ last = NoCall
  /\ hist = [context |-> NoContext, loaded |-> FALSE, stdout |-> <<>>]

NextOverlay ==
  \/ DoOverlayLs
  \/ DoOverlayCat
  \/ DoOverlayWrite
  \/ DoOverlayRemove

SpecOverlay == InitOverlay /\ [][NextOverlay]_vars

\* ------------------------------------------------------------ the claims
\* What the adapter governing a path stores for it (adapter.list()).
Governing(fs, ad, path) == ad[fs.mounts[FindStorageMount(fs, path)]]

StorageKey(fs, path) == RelativeStoragePath(path, FindStorageMount(fs, path))

\* C1: a write_file that the adapter rejects leaves the file's in-memory
\* content and version as they were before the call.
C1_ConflictPreservesCachedState == [][(last'.op = "write_file" /\ last'.err = StorageConflict /\ IsFileAt(vfs, last'.path)) => (ReadFile(vfs', last'.path) = ReadFile(vfs, last'.path) /\ GetVersion(vfs', last'.path) = GetVersion(vfs, last'.path))]_vars

\* C2: after a successful write_file or append_file under a storage mount the
\* adapter stores, for that path, exactly the file's in-memory content and version.
C2_WrittenFileMatchesAdapter == (last.op = "write_file" /\ last.err = NoErr /\ HasStorageMount(vfs, last.path)) => (StorageKey(vfs, last.path) \in DOMAIN Governing(vfs, adapters, last.path) /\ Governing(vfs, adapters, last.path)[StorageKey(vfs, last.path)] = StorageEntry(ReadFile(vfs, last.path).content, GetVersion(vfs, last.path)))

\* A successful append to a mounted file that had been written before.
C2_Witness == last.op = "write_file" /\ last.err = NoErr /\ last.append /\ HasStorageMount(vfs, last.path) /\ GetVersion(vfs, last.path) >= 2

\* C4: write_file with an expected_version that differs from the version of
\* an existing file raises and changes nothing: not the tree, not the index, not
\* the adapters, and no hook is called.
C4_StaleExpectedVersionChangesNothing == [][(last'.op = "write_file" /\ last'.expected_version # NoNode /\ IsFileAt(vfs, last'.path) /\ GetVersion(vfs, last'.path) # last'.expected_version) => (last'.err # NoErr /\ vfs' = vfs /\ adapters' = adapters /\ events' = <<>>)]_vars

\* A version mismatch raised on a file that had been written before.
C4_Witness == last.op = "write_file" /\ last.err = VersionMismatch /\ IsFileAt(vfs, last.path) /\ GetVersion(vfs, last.path) >= 2

\* C6: after sync_storage the nodes under the mount are exactly the files of
\* the adapter's listing, with the adapter's content and version (and the
\* directories leading to them).
C6_SyncMirrorsListing ==
  (last.op = "sync_storage" /\ last.err = NoErr) =>
    LET a == adapters[vfs.mounts[last.path]]
        top == ResolveNode(vfs, last.path).node
    IN /\ \A k \in DOMAIN a : IsFileAt(vfs, last.path \o k) /\ StorageEntry(ReadFile(vfs, last.path \o k).content, GetVersion(vfs, last.path \o k)) = a[k]
       /\ \A n \in Below(vfs, top) \ {top} :
            IF IsFile(vfs, n) THEN RelativeStoragePath(NodePath(vfs, n), last.path) \in DOMAIN a
            ELSE \E k \in DOMAIN a : IsPrefix(RelativeStoragePath(NodePath(vfs, n), last.path), k) /\ Len(k) > Len(NodePath(vfs, n)) - Len(last.path)

\* A sync that brought in a foreign entry and dropped a file the adapter no
\* longer lists.
C6_Witness == last.op = "sync_storage" /\ last.err = NoErr /\ DOMAIN adapters["A"] = {<<"b">>}

\* C5: when both facades hold the file at version v and each writes it once,
\* with no sync in between, exactly one write is accepted, the other raises a
\* storage conflict, and the adapter holds the accepted content at version v + 1.
C5_NoLostUpdate ==
  Len(hist.w) = 2 =>
    \E i \in 1..2 :
      /\ hist.w[i].err = NoErr
      /\ hist.w[3 - i].err = StorageConflict
      /\ <<"a">> \in DOMAIN adapters["A"]
      /\ adapters["A"][<<"a">>] = StorageEntry(ReadFile(Facade(hist.w[i].facade), SharedFile).content, hist.base + 1)
      /\ ~hist.w[i].append => adapters["A"][<<"a">>].content = hist.w[i].data

\* Both wrote at a version reached by earlier writes; the second facade's
\* write came first and was the accepted one.
C5_Witness == Len(hist.w) = 2 /\ hist.base >= 1 /\ hist.w[1].facade = 2 /\ hist.w[1].err = NoErr

\* C3: a path that had no node has, after N >= 1 successful writes and appends,
\* version N; and right after a successful non-append write of d, read_file
\* returns d.
C3_VersionCountsWrites ==
  /\ \A p \in DOMAIN hist : hist[p] >= 1 => IsFileAt(vfs, p) /\ GetVersion(vfs, p) = hist[p]
  /\ (last.op = "write_file" /\ last.err = NoErr /\ ~last.append) => ReadFile(vfs, last.path) = [err |-> NoErr, content |-> last.data]

\* Three successful writes to a path that had no node, the last one replacing
\* other content.
C3_Witness == hist[FreshFile] = 3 /\ last.op = "write_file" /\ last.err = NoErr /\ ~last.append /\ last.path = FreshFile /\ last.data = <<"y">>

\* C7: a successful remove takes the node and every descendant out of the
\* tree, and every file among them out of the governing adapter's listing and
\* out of the search index.
C7_RemoveDeletesEntries ==
  [][(last'.op = "remove" /\ last'.err = NoErr) =>
       \A n \in Below(vfs, ResolveNode(vfs, last'.path).node) :
         /\ ~Exists(vfs', NodePath(vfs, n))
         /\ IsFile(vfs, n) => /\ NodePath(vfs, n) \notin DOMAIN vfs'.index
                              /\ HasStorageMount(vfs, NodePath(vfs, n))
                              /\ StorageKey(vfs, NodePath(vfs, n)) \notin DOMAIN Governing(vfs, adapters', NodePath(vfs, n))]_vars

\* A recursive remove of the directory under the mount that deleted two files.
C7_Witness == last.op = "remove" /\ last.recursive /\ last.err = NoErr /\ last.path = <<"m", "d">> /\ Len(events) = 2 /\ DOMAIN adapters["A"] = {<<"a">>}

\* The files the tree holds under a mount prefix, as adapter keys.
FilesUnder(fs, prefix) == {RelativeStoragePath(NodePath(fs, n), prefix) : n \in {i \in Below(fs, ResolveNode(fs, prefix).node) : IsFile(fs, i)}}

\* C8: with no other holder of the adapter, after any successful write_file,
\* remove, move and copy under the mount the adapter lists exactly the files the
\* tree holds under the mount, with equal content.
C8_MutationsPersisted ==
  (last.err = NoErr) =>
    /\ DOMAIN adapters["A"] = FilesUnder(vfs, MountPoint)
    /\ \A k \in DOMAIN adapters["A"] : ReadFile(vfs, MountPoint \o k).content = adapters["A"][k].content

\* Where move(source, target) puts the node: target, or target/name when the
\* target is an existing directory.
NewPath(fs, source, target) == IF IsDirAt(fs, target) THEN Append(target, BaseName(source)) ELSE target

\* Between fs and after, nothing changed but the node itself and the entries
\* for it in the directories at from and to.
OthersUnchanged(fs, after, node, from, to) ==
  \A n \in Ids \ {node} :
    /\ after.nodes[n] = [fs.nodes[n] EXCEPT !.children = after.nodes[n].children]
    /\ \A name \in Names : (<<n, name>> \notin {<<ResolveNode(fs, Parent(from)).node, BaseName(from)>>, <<ResolveNode(fs, Parent(to)).node, BaseName(to)>>}) => after.nodes[n].children[name] = fs.nodes[n].children[name]

\* The effect C9 describes for move(source, target) of the file node.
MovedTo(fs, after, source, to) ==
  LET node == ResolveNode(fs, source).node IN
  /\ ~Exists(after, source)
  /\ IsFileAt(after, to)
  /\ ResolveNode(after, to).node = node
  /\ after.nodes[node].content = fs.nodes[node].content
  /\ after.nodes[node].version = fs.nodes[node].version
  /\ OthersUnchanged(fs, after, node, source, to)

\* C9 as stated: after every successful move of a file the source path does
\* not exist and the file is at the new path, content and version kept, every
\* other node unchanged.
C9_MoveAsStated == [][(last'.op = "move" /\ last'.err = NoErr /\ IsFileAt(vfs, last'.path)) => MovedTo(vfs, vfs', last'.path, NewPath(vfs, last'.path, last'.target))]_vars

\* C9, amended: that is the effect of a successful move of a file unless the new
\* path is the source path itself (the target is the directory holding the
\* file), when the move succeeds and changes nothing.
C9_MoveKeepsContentAndVersion ==
  [][(last'.op = "move" /\ last'.err = NoErr /\ IsFileAt(vfs, last'.path)) =>
       IF NewPath(vfs, last'.path, last'.target) = last'.path THEN vfs' = vfs
       ELSE MovedTo(vfs, vfs', last'.path, NewPath(vfs, last'.path, last'.target))]_vars

\* The twice-written file was moved into the directory and is found there.
C9_Witness == last.op = "move" /\ last.err = NoErr /\ last.path = <<"a">> /\ last.target = <<"d">> /\ IsFileAt(vfs, <<"d", "a">>) /\ GetVersion(vfs, <<"d", "a">>) = 2

\* C10 as stated: copy and move onto an existing file succeed and the source's
\* content is readable at the destination.
C10_ReplaceAsStated ==
  [][(last'.op \in {"move", "copy"} /\ IsFileAt(vfs, last'.path) /\ IsFileAt(vfs, last'.target)) =>
       (last'.err = NoErr /\ ReadFile(vfs', last'.target) = ReadFile(vfs, last'.path))]_vars

\* C10, amended: copy of a file onto an existing file succeeds and puts a new
\* node with the source's content (at version 0) at the destination; move onto
\* an existing file raises "Destination already exists" and changes nothing.
C10_CopyReplacesMoveRefuses ==
  [][(last'.op \in {"move", "copy"} /\ IsFileAt(vfs, last'.path) /\ IsFileAt(vfs, last'.target)) =>
       IF last'.op = "copy"
       THEN /\ last'.err = NoErr
            /\ IsFileAt(vfs', last'.target)
            /\ ResolveNode(vfs', last'.target).node # ResolveNode(vfs, last'.target).node
            /\ ReadFile(vfs', last'.target) = ReadFile(vfs, last'.path)
            /\ GetVersion(vfs', last'.target) = 0
       ELSE last'.err = DestinationExists /\ vfs' = vfs]_vars

\* A copy onto a file with other content succeeded.
C10_Witness == last.op = "copy" /\ last.err = NoErr /\ last.path = <<"a">> /\ last.target = <<"b">> /\ ReadFile(vfs, <<"b">>).content = <<"x">> /\ GetVersion(vfs, <<"a">>) = 2

\* Path p is the path d or lies below it.
AtOrBelow(d, p) == Len(d) <= Len(p) /\ \A i \in 1..Len(d) : p[i] = d[i]

\* C11 as stated: move and recursive copy of a directory raise whenever the
\* place the directory (or its copy) would take is the directory itself or lies
\* below it.
C11_AsStated ==
  [][(last'.op \in {"move", "copy"} /\ IsDirAt(vfs, last'.path) /\ AtOrBelow(last'.path, NewPath(vfs, last'.path, last'.target))) => last'.err # NoErr]_vars

\* C11, amended: recursive copy of a directory raises whenever the copy's place
\* is the directory itself or below it; move raises whenever the directory that
\* would hold the moved one is the directory itself or below it, and a move of
\* a directory to the place it already has succeeds and changes nothing.
C11_DirectoryNeverIntoItself ==
  [][(last'.op \in {"move", "copy"} /\ IsDirAt(vfs, last'.path) /\ AtOrBelow(last'.path, NewPath(vfs, last'.path, last'.target))) =>
       IF last'.op = "move" /\ NewPath(vfs, last'.path, last'.target) = last'.path /\ last'.target # last'.path
       THEN last'.err = NoErr /\ vfs' = vfs
       ELSE last'.err # NoErr]_vars

\* A move of /d into its own subdirectory /d/m was refused.
C11_Witness == last.op = "move" /\ last.path = <<"d">> /\ last.target = <<"d", "m">> /\ last.err = InsideItself /\ IsDirAt(vfs, <<"d", "m">>)

\* C12: while a file's policy is append_only, write_file without append raises
\* and leaves its content and version unchanged, and no facade call removes or
\* replaces the file (the node stays in the tree, a file) or takes anything
\* away from the front of its content.
AppendOnlyFiles(fs) == {n \in Below(fs, Root) : IsFile(fs, n) /\ fs.nodes[n].policy.append_only}

C12_AppendOnlyFileKept ==
  [][\A n \in AppendOnlyFiles(vfs) :
       /\ n \in Below(vfs', Root) /\ IsFile(vfs', n)
       /\ AtOrBelow(vfs.nodes[n].content, vfs'.nodes[n].content)
       /\ (last'.op = "write_file" /\ ~last'.append /\ last'.path = NodePath(vfs, n)) =>
            (last'.err = AppendOnly /\ vfs'.nodes[n].content = vfs.nodes[n].content /\ vfs'.nodes[n].version = vfs.nodes[n].version)]_vars

\* C14: allows(policy) is true exactly when the policy declares principals
\* and the view declares a principal set that overlaps them (classification
\* ignored), or the policy declares no principals and the view has no
\* classification set or one that contains the policy's classification; a
\* policy with principals {"bob"} is denied by every view without a principal set.
C14_AllowsAsStated ==
  hist.allows # NotAsked =>
    /\ hist.allows = "yes" <=>
         \/ hist.policy.principals # {} /\ hist.view.principals.given /\ hist.policy.principals \cap hist.view.principals.set # {}
         \/ hist.policy.principals = {} /\ (~hist.view.classifications.given \/ hist.policy.classification \in hist.view.classifications.set)
    /\ (hist.policy.principals = {"bob"} /\ ~hist.view.principals.given) => hist.allows = "no"

C14_Witness == hist.allows = "no" /\ hist.policy.principals = {"bob"} /\ hist.policy.classification = "public" /\ ~hist.view.principals.given /\ hist.view.classifications = Given({"public"})

\* C15: after a host command has been read back, whatever its exit code and
\* with all nodes writable, the virtual tree equals the host tree as the
\* process left it: the same files with the same content, the same
\* directories, nothing else, and the root is still there.
AllWritable(fs) == \A n \in Below(fs, Root) : fs.nodes[n].policy.writable /\ ~fs.nodes[n].policy.append_only

C15_TreeEqualsHostTree == (last.op = "sync_from_host" /\ AllWritable(vfs)) => (ExportToPath(vfs) = hist.tmp /\ IsDir(vfs, Root))

\* C16: a file whose content the host command left as it was exported is
\* untouched by the read-back: the same node with the same content and
\* version, and no write or path event for its path.
UnchangedOnHost(fs, host) == {n \in Below(fs, Root) : IsFile(fs, n) /\ NodePath(fs, n) \in DOMAIN host /\ host[NodePath(fs, n)] = HostFile(fs.nodes[n].content)}

Untouched(n) == vfs'.nodes[n] = vfs.nodes[n] /\ n \in Below(vfs', Root) /\ \A i \in 1..Len(events') : events'[i].path # NodePath(vfs, n)

C16_UnchangedFileUntouched == [][last'.op = "sync_from_host" => \A n \in UnchangedOnHost(vfs, hist.tmp) : Untouched(n)]_vars

\* C17: the temporary directory of materialize() and of a host command is
\* released on every exit path: it never exists while no call is under way,
\* and once the body of the scope is over (the process exited with any code
\* and was read back, it could not be started, the export or the read-back
\* raised) the directory is eventually gone.
C17_TemporaryDirectoryReleased == [](hist.pc = "idle" => ~hist.exists) /\ ((hist.exists /\ hist.pc \in {"synced", "raised"}) ~> ~hist.exists)

C17_Witness == last.op = "return" /\ hist.pc = "idle" /\ hist.exit_code = 127 /\ ~hist.exists

\* C13: under the view VisibilityView(classifications={"public"}) no node
\* classified otherwise appears in the output of ls, find or tree, whatever
\* directory they are run on, and the three agree: run with the same
\* arguments they succeed together, find shows the start and what tree shows
\* below it, and ls shows what tree shows directly below it.
ListingOf(name) == Exec(PublicOnly, vfs, adapters, <<<<Command(name, hist.lines[1][1].args, <<>>, <<>>, FALSE)>>>>, NoRun)

Shows(name) == {ListingOf(name).stdout[i] : i \in 1..Len(ListingOf(name).stdout)}

WasListing == hist.lines # <<>> /\ hist.lines[1][1].name \in {"ls", "tree", "find"} /\ last.op = "exec"

C13_HiddenNodesNeverListed ==
  WasListing =>
    /\ \A i \in 1..Len(hist.stdout) : vfs.nodes[hist.stdout[i]].policy.classification = "public"
    /\ ListingOf("ls").exit_code = ListingOf("tree").exit_code /\ ListingOf("tree").exit_code = ListingOf("find").exit_code
    /\ ListingOf("tree").exit_code = 0 =>
         /\ Shows("find") = Shows("tree")
         /\ Shows("ls") = {n \in Shows("tree") : vfs.nodes[n].parent = ListingOf("tree").stdout[1]}

\* The commands of an input, line after line, in the order written.
RECURSIVE Flatten(_)
Flatten(lines) == IF lines = <<>> THEN <<>> ELSE Head(lines) \o Flatten(Tail(lines))

\* The stdout redirection targets of the first n commands of an input.
Targets(flat, n) ==
  LET redirected == SelectSeq(SubSeq(flat, 1, n), LAMBDA c : c.stdout # <<>>) IN
  [i \in 1..Len(redirected) |-> redirected[i].stdout[1]]

\* C18: the commands of an input run in the order written, segment after
\* segment and line after line; once a command returns a non-zero exit code
\* no later segment and no later line runs, the failing command's stdout
\* redirection target is not written, and exec returns that exit code.
C18_PipelineShortCircuits ==
  last.op = "exec" =>
    LET flat == Flatten(hist.lines)
        k == Len(hist.trace)
    IN /\ k <= Len(flat)
       /\ \A i \in 1..k : hist.trace[i].spec = flat[i]
       /\ \A i \in 1..(k - 1) : hist.trace[i].exit_code = 0
       /\ (k > 0 /\ hist.trace[k].exit_code # 0) =>
            /\ last.err = NoErr
            /\ hist.exit_code = hist.trace[k].exit_code
            /\ hist.wrote = Targets(flat, k - 1)
       /\ (last.err = NoErr /\ hist.exit_code = 0) => (k = Len(flat) /\ hist.wrote = Targets(flat, k))

\* A first segment that fails with a stdout redirection, before a second one.
C18_Witness ==
  /\ last.op = "exec"
  /\ Len(hist.lines) = 1
  /\ Len(hist.lines[1]) = 2
  /\ hist.lines[1][1].stdout # <<>>
  /\ Len(hist.trace) = 1
  /\ hist.exit_code = 1
  /\ hist.wrote = <<>>

\* C19: exec never raises; every sandbox error of a pipeline, in a handler,
\* in the expansion of the arguments, in reading a "<" source or in writing
\* a ">" target, comes back as a result with a non-zero exit code and a
\* message on stderr.
C19_ExecNeverRaises == last.op = "exec" => last.err = NoErr

\* C20: with an allow-list, a command whose name is outside the list is never
\* run, neither by a builtin handler nor as a host process: exec returns a
\* non-zero exit code, nothing was run, and the tree is as it was.
C20_OutsideAllowListNeverRuns ==
  [][(last'.op = "exec" /\ hist'.lines # <<>> /\ hist'.lines[1][1].name \notin AllowList) =>
       (hist'.trace = <<>> /\ hist'.exit_code # 0 /\ vfs' = vfs)]_vars

\* C21: a command line with malformed pipeline syntax makes exec return exit
\* code 2 with no segment of the line executed: the tree and the shell's
\* environment are as they were.
C21_MalformedLineRunsNothing ==
  [][(last'.op = "exec" /\ hist'.line \in MalformedLines) =>
       (last'.err = NoErr /\ hist'.exit_code = 2 /\ hist'.trace = <<>> /\ vfs' = vfs /\ hist'.env = hist.env)]_vars

\* C22: with max_output_bytes = N every result exec returns either has
\* len(stdout) + len(stderr) <= N or is the limit-exceeded failure, with
\* empty stdout and a non-zero exit code.
C22_OutputWithinBudget ==
  (last.op = "exec" /\ last.err = NoErr /\ hist.budgeted) =>
    \/ Len(hist.stdout) + StderrLength(hist.stderr) <= MaxOutputBytes
    \/ hist.stdout = <<>> /\ hist.stderr = OutputLimitExceeded /\ hist.exit_code # 0

\* C23: assignments before a command are seen by the variable expansion of
\* that segment and leave the shell's environment as it was; a line of
\* assignments only stores them, each value expanded, in the environment and
\* returns empty output with exit code 0, the tree untouched.
C23_AssignmentsLocalOrStored ==
  [][(last'.op = "exec" /\ hist'.line \in WellFormedLines) =>
       /\ hist'.line = <<FooIsWord, Echo, FooReference>> => (hist'.stdout = <<"h", "\n">> /\ hist'.exit_code = 0)
       /\ hist'.line = <<FooIsOther, Echo, FooReference>> => (hist'.stdout = <<"x", "\n">> /\ hist'.exit_code = 0)
       /\ hist'.line = <<Echo, FooReference>> => hist'.stdout = GetItem(hist.env, "FOO") \o <<"\n">>
       /\ hist'.line \notin {<<FooIsWord>>, <<<<"BAR", "=", "$FOO">>>>} => hist'.env = hist.env
       /\ hist'.line = <<FooIsWord>> =>
            (GetItem(hist'.env, "FOO") = <<"h">> /\ GetItem(hist'.env, "BAR") = GetItem(hist.env, "BAR") /\ HasKey(hist'.env, "BAR") = HasKey(hist.env, "BAR"))
       /\ hist'.line = <<<<"BAR", "=", "$FOO">>>> =>
            (HasKey(hist'.env, "BAR") /\ GetItem(hist'.env, "BAR") = GetItem(hist.env, "FOO") /\ GetItem(hist'.env, "FOO") = GetItem(hist.env, "FOO") /\ HasKey(hist'.env, "FOO") = HasKey(hist.env, "FOO"))
       /\ hist'.line \in {<<FooIsWord>>, <<<<"BAR", "=", "$FOO">>>>} =>
            (hist'.stdout = <<>> /\ hist'.stderr = "" /\ hist'.exit_code = 0 /\ hist'.trace = <<>> /\ vfs' = vfs)]_vars

\* FOO=x echo $FOO printed x while the shell's environment holds FOO=h, and
\* BAR took the value of FOO.
C23_Witness ==
  /\ last.op = "exec"
  /\ hist.line = <<FooIsOther, Echo, FooReference>>
  /\ hist.stdout = <<"x", "\n">>
  /\ GetItem(hist.env, "FOO") = <<"h">>
  /\ GetItem(hist.env, "BAR") = <<"h">>

\* The index holds exactly the paths of the files of the tree, each with the
\* file's content.
IndexMatchesTree(fs) ==
  /\ DOMAIN fs.index = {NodePath(fs, n) : n \in {i \in Ids : IsFile(fs, i)}}
  /\ \A n \in Ids : IsFile(fs, n) => fs.index[NodePath(fs, n)] = fs.nodes[n].content

\* C24: with the index enabled, after any sequence of write_file,
\* append_file, move, copy and remove calls the index holds exactly the paths
\* of the files in the tree, each mapped to the file's current content.
C24_IndexMatchesTree == vfs.indexed => IndexMatchesTree(vfs)

\* The version write_file finds at a path: 0 for a file it creates.
PreWriteVersion(fs, path) == IF IsFileAt(fs, path) THEN GetVersion(fs, path) ELSE 0

\* A path at or below /d, the prefix of the hook.
UnderHook(path) == path # <<>> /\ path[1] = "d"

\* The paths of the files at or below a path that lie under the hook's prefix.
HookedFilesAt(fs, path) == {p \in {NodePath(fs, n) : n \in FilesBelow(fs, ResolveNode(fs, path).node)} : UnderHook(p)}

\* C25: a successful write under the prefix of a path hook delivers exactly
\* one event, create when the file's version before the write was 0 and
\* update otherwise; a write outside the prefix and a write that raises
\* deliver none; a successful remove delivers exactly one delete event
\* without content for every file under the prefix that it removed.  A call
\* delivers its events before it returns, so they arrive in call order.
C25_PathHookEvents ==
  [][/\ (last'.op = "write_file" /\ last'.err = NoErr /\ UnderHook(last'.path))
          => /\ Len(events') = 1
             /\ events'[1].hook = "path" /\ events'[1].path = last'.path
             /\ events'[1].event = (IF PreWriteVersion(vfs, last'.path) = 0 THEN "create" ELSE "update")
     /\ (last'.op = "write_file" /\ (last'.err # NoErr \/ ~UnderHook(last'.path))) => events' = <<>>
     /\ (last'.op = "remove" /\ last'.err = NoErr)
          => /\ {events'[i].path : i \in 1..Len(events')} = HookedFilesAt(vfs, last'.path)
             /\ Len(events') = Cardinality(HookedFilesAt(vfs, last'.path))
             /\ \A i \in 1..Len(events') : events'[i] = PathEvent(1, events'[i].path, "delete", None)]_vars

\* A write to /d/a, at version 2 before it, was announced as an update while
\* the file /a outside the prefix exists.
C25_Witness == last.op = "write_file" /\ last.err = NoErr /\ last.path = <<"d", "a">> /\ Len(events) = 1 /\ events[1].event = "update" /\ GetVersion(vfs, <<"d", "a">>) = 3 /\ IsFileAt(vfs, <<"a">>)

\* C26: restore of a snapshot succeeds and gives back the tree of the
\* snapshot (the same paths with the same kind, content, version and policy,
\* and the same cwd), whatever policies the nodes carry and whatever was
\* changed since the snapshot was taken.
C26_RestoreRoundTrip == [][last'.op = "restore" => (last'.err = NoErr /\ Snapshot(vfs') = hist)]_vars

\* The text of line number n of the file at a path.
LineOf(fs, path, n) == SplitLines(fs.nodes[ResolveNode(fs, path).node].content)[n]

\* C27: every line rg prints has the form path:line-number:line-text, the
\* number counted from 1: the line of that number of the file at that path
\* is the text.
C27_RgPrintsPathNumberText ==
  (last.op = "rg" /\ hist.exit_code = 0)
    => \A i \in 1..Len(hist.stdout) :
         /\ Len(hist.stdout[i]) = 3
         /\ IsFileAt(vfs, hist.stdout[i][1])
         /\ hist.stdout[i][2] \in 1..Len(SplitLines(vfs.nodes[ResolveNode(vfs, hist.stdout[i][1]).node].content))
         /\ LineOf(vfs, hist.stdout[i][1], hist.stdout[i][2]) = hist.stdout[i][3]

\* C28: a move or a copy that raises leaves the tree as it was before the
\* call: the source is still a child of its parent and an existing
\* destination file has not been detached.
C28_MoveAndCopyAllOrNothing == [][(last'.op \in {"move", "copy"} /\ last'.err # NoErr) => vfs'.nodes = vfs.nodes]_vars

\* C29: a write_file that raises leaves the set of nodes as it was: no new
\* empty file and no new intermediate directories stay behind.
C29_FailedWriteCreatesNothing == [][(last'.op = "write_file" /\ last'.err # NoErr) => vfs'.nodes = vfs.nodes]_vars

\* No directory that is non-writable before the step has a child after it
\* that it did not have before.
NoChildGained(fs, after) == \A n \in Ids : (IsDir(fs, n) /\ ~fs.nodes[n].policy.writable) => \A nm \in Names : GetChild(fs, n, nm) = NoNode => GetChild(after, n, nm) = NoNode

\* C30: a non-writable directory gains no child through write_file, touch or
\* mkdir, with or without parents.
C30_ReadOnlyDirectoryGainsNoChild == [][last'.op \in {"write_file", "touch", "mkdir"} => NoChildGained(vfs, vfs')]_vars

\* C31: a recursive remove that raises has removed nothing: the tree, the
\* search index and the adapters are as before the call and no delete event
\* has been delivered.
C31_RecursiveRemoveAllOrNothing == [][(last'.op = "remove" /\ last'.recursive /\ last'.err # NoErr) => (vfs' = vfs /\ adapters' = adapters /\ events' = <<>>)]_vars

\* C32: while /d/a, the only file, is unreadable, no read gives out a line of
\* text: read_file raises, and vfs.search, cat, grep and rg print no line of
\* the file from whichever directory they start.
C32_UnreadableContentNeverDisclosed == (last.op \in Readers /\ IsFileAt(vfs, <<"d", "a">>) /\ ~vfs.nodes[ResolveNode(vfs, <<"d", "a">>).node].policy.readable) => hist.texts = <<>>

\* C33: while the view hides the directory /d, cat, ls, find and tree given
\* the full path of a node beneath /d fail and print nothing, although the
\* node's own policy is one the view allows.
C33_BeneathHiddenDirectoryIsHidden == (last.op = "exec" /\ ~Allows(PublicOnly.view, vfs.nodes[ResolveNode(vfs, <<"d">>).node].policy)) => (hist.exit_code # 0 /\ hist.stdout = <<>>)

\* The node a path resolves to from the root, NoNode when it does not resolve.
NodeAt(fs, path) == IF ResolveNode(fs, path).err = NoErr THEN ResolveNode(fs, path).node ELSE NoNode

\* Every entry (nm -> c) of the children map of a directory under the root
\* has c.name = nm and c.parent = the directory.
WellFormedTree(fs) ==
  \A dir \in Below(fs, Root) : \A nm \in Names :
    LET c == GetChild(fs, dir, nm) IN
    c # NoNode => (fs.nodes[c].name = nm /\ fs.nodes[c].parent = dir /\ fs.nodes[c].kind # "free")

\* C34: in every reachable state the children maps, names and parent
\* references agree, no node is the child of two directories, and the path
\* of every node under the root resolves to that node.
C34_TreeWellFormed ==
  /\ WellFormedTree(vfs)
  /\ \A n \in Below(vfs, Root) : NodeAt(vfs, NodePath(vfs, n)) = n
  /\ \A d1, d2 \in Below(vfs, Root) : \A n1, n2 \in Names : (GetChild(vfs, d1, n1) # NoNode /\ GetChild(vfs, d1, n1) = GetChild(vfs, d2, n2)) => (d1 = d2 /\ n1 = n2)

\* A directory that holds a file was moved under a new name: /d/a is now /b/a.
C34_Witness == last.op = "move" /\ last.err = NoErr /\ last.path = <<"d">> /\ IsFileAt(vfs, <<"b", "a">>) /\ ~Exists(vfs, <<"d">>)

\* C35: the working directory is a directory attached to the tree: the path
\* pwd() gives resolves, and to the cwd node itself.
C35_CwdStaysAttached == ResolveNode(vfs, Pwd(vfs)).err = NoErr /\ ResolveNode(vfs, Pwd(vfs)).node = vfs.cwd

\* What copy must keep of a node: kind, content and policy fields.
Cloned(fs, path) == LET n == fs.nodes[ResolveNode(fs, path).node] IN [kind |-> n.kind, content |-> n.content, policy |-> n.policy]

\* What a call on another path must leave alone: Cloned and the version.
Kept(fs, path) == LET n == fs.nodes[ResolveNode(fs, path).node] IN [kind |-> n.kind, content |-> n.content, policy |-> n.policy, version |-> n.version]

\* Where copy(source, target) puts the clone: target/name for a directory.
CopiedTo(fs, source, target) == IF Exists(fs, target) /\ IsDir(fs, ResolveNode(fs, target).node) THEN Append(target, source[Len(source)]) ELSE target

\* The paths below a node, relative to it.
BelowPaths == {<<>>} \cup {<<n>> : n \in Names}

\* C36: right after a successful copy every copied node has the content and
\* the policy fields of its source and the source subtree is unchanged
\* (children, content, policy, version); a later write_file or set_policy on
\* one path leaves the nodes at all other paths as they were, so copy and
\* source never change together.
C36_CopyIsIndependent ==
  [][/\ (last'.op = "copy" /\ last'.err = NoErr) =>
          \A q \in BelowPaths : Exists(vfs, last'.path \o q) =>
             /\ Exists(vfs', last'.path \o q) /\ Kept(vfs', last'.path \o q) = Kept(vfs, last'.path \o q)
             /\ Exists(vfs', CopiedTo(vfs, last'.path, last'.target) \o q)
             /\ Cloned(vfs', CopiedTo(vfs, last'.path, last'.target) \o q) = Cloned(vfs, last'.path \o q)
     /\ (last'.op \in {"write_file", "set_policy"}) =>
          \A p \in CopySources \cup CopyTargets \cup {<<"b", "a">>} : (p # last'.path /\ Exists(vfs, p)) => (Exists(vfs', p) /\ Kept(vfs', p) = Kept(vfs, p))
    ]_vars

\* The version write_file gives a file it creates with this content.
WrittenOnce(content) == GetVersion(WriteFile(EmptyVFS, InitialAdapters, <<"a">>, content, FALSE, NoNode).fs, <<"a">>)

\* C37 as stated, reading "writing its content once to a new file" as
\* write_file on a new path: after a successful copy every copied file has the
\* version of a file created by one write_file of its content.
C37_VersionOfOneWrite ==
  [][(last'.op = "copy" /\ last'.err = NoErr) =>
       \A q \in BelowPaths : IsFileAt(vfs, last'.path \o q) =>
          GetVersion(vfs', CopiedTo(vfs, last'.path, last'.target) \o q) = WrittenOnce(Cloned(vfs, last'.path \o q).content)]_vars

\* C37: after a successful copy every copied file has version 0, the version
\* of a new file node, which VirtualFile.write leaves alone, whatever the
\* version of its source.
C37_CopiedFileHasVersionZero ==
  [][(last'.op = "copy" /\ last'.err = NoErr) =>
       \A q \in BelowPaths : IsFileAt(vfs, last'.path \o q) =>
          /\ IsFileAt(vfs', CopiedTo(vfs, last'.path, last'.target) \o q)
          /\ GetVersion(vfs', CopiedTo(vfs, last'.path, last'.target) \o q) = 0]_vars

\* /d was copied to /b while /d/a was at version 2: /b/a is at version 0.
C37_Witness == last.op = "copy" /\ last.err = NoErr /\ last.path = <<"d">> /\ IsFileAt(vfs, <<"d", "a">>) /\ GetVersion(vfs, <<"d", "a">>) = 2 /\ IsFileAt(vfs, <<"b", "a">>) /\ GetVersion(vfs, <<"b", "a">>) = 0

\* C38: a write_file or remove on a path under /m/d, which both mounts cover,
\* leaves the adapter of /m as it is and acts on the adapter of /m/d alone,
\* under the path relative to /m/d: a successful write stores the data there,
\* a successful remove of a file drops that key, and no other key changes.  A
\* path under /m only leaves the adapter of /m/d as it is.
C38_LongestMountGoverns ==
  [][(last'.op \in {"write_file", "remove"}) =>
       /\ IsPrefix(InnerMount, last'.path) =>
            /\ adapters'["A"] = adapters["A"]
            /\ Len(last'.path) = 3 =>
                 LET key == SubSeq(last'.path, 3, 3) IN
                 /\ \A k \in (DOMAIN adapters["B"] \cup DOMAIN adapters'["B"]) \ {key} : k \in DOMAIN adapters["B"] /\ k \in DOMAIN adapters'["B"] /\ adapters'["B"][k] = adapters["B"][k]
                 /\ (last'.err = NoErr /\ last'.op = "write_file") => (key \in DOMAIN adapters'["B"] /\ adapters'["B"][key].content = last'.data)
                 /\ (last'.err = NoErr /\ last'.op = "remove") => key \notin DOMAIN adapters'["B"]
       /\ ~IsPrefix(InnerMount, last'.path) => adapters'["B"] = adapters["B"]]_vars

\* /m/d/a was written: "B" holds it under "a", "A" still lists its old "d/a".
C38_Witness == last.op = "write_file" /\ last.err = NoErr /\ last.path = <<"m", "d", "a">> /\ <<"a">> \in DOMAIN adapters["B"] /\ adapters["B"][<<"a">>].content = last.data /\ <<"d", "a">> \in DOMAIN adapters["A"] /\ adapters["A"][<<"d", "a">>].content # last.data

\* The node of /d.
LazyNode(fs) == ResolveNode(fs, LazyDir).node

Matching(fs, pattern) == SelectSeq(NameSeq, LAMBDA n : <<n>> # OverlayPrefix /\ IsFileAt(fs, <<n>>) /\ Contains(pattern, Cloned(fs, <<n>>).content))

\* C40: a listing or a read through a search path, whether it succeeds or
\* raises, leaves the active search context as it was, and what it gives is
\* fixed by the query and the tree outside the overlay: the listing names the
\* files that match, the read of a matching file gives its path:1:text line,
\* the read of any other file raises NodeNotFound, whatever search paths
\* were used before.
C40_OverlayKeepsContextAndForgetsQueries ==
  [][(last'.op \in {"ls", "cat"}) =>
       /\ hist'.context = hist.context
       /\ last'.op = "ls" => (last'.err = NoErr /\ hist'.stdout = Matching(vfs, last'.data))
       /\ (last'.op = "cat" /\ \E i \in 1..Len(Matching(vfs, last'.data)) : <<Matching(vfs, last'.data)[i]>> = last'.target) =>
            (last'.err = NoErr /\ hist'.stdout = PathText(last'.target) \o <<":", "1", ":">> \o Cloned(vfs, last'.target).content)
       /\ (last'.op = "cat" /\ ~\E i \in 1..Len(Matching(vfs, last'.data)) : <<Matching(vfs, last'.data)[i]>> = last'.target) =>
            (last'.err = NodeNotFound /\ hist'.stdout = <<>>)]_vars

\* /m?q=y was listed after another search path had filled the overlay with
\* /a: the listing names /b alone, and no context is active.
C40_Witness == last.op = "ls" /\ last.data = <<"y">> /\ last.err = NoErr /\ hist.stdout = <<"b">> /\ IsFileAt(vfs, <<"a">>) /\ IsFileAt(vfs, <<"m", "b">>) /\ ~Exists(vfs, <<"m", "a">>) /\ ~hist.context.active

====
